---- MODULE Spec2Model ----
(***************************************************************************)
(* AgentFlow: the browser agent loop of LLMAgent (agent.js) and the parts  *)
(* of server.js it talks to.                                               *)
(*                                                                         *)
(* Message texts are modelled by the set of trigger keywords they contain  *)
(* as substrings: the mock responder only ever tests a text with           *)
(* String.includes on these keywords.  'search' stands for the pair        *)
(* search/find, 'code' for code/javascript, 'analyze' for                  *)
(* analyze/summarize and 'next' for next/continue, which the code always   *)
(* tests together.                                                         *)
(***************************************************************************)
EXTENDS Integers, Sequences, FiniteSets, TLC

VARIABLES
    conversation,   \* this.conversation
    isProcessing,   \* this.isProcessing
    pc,             \* where agentLoop is suspended: idle, mock, live, tools
    agentLoops,     \* number of agentLoop activations that have not returned
    apiKey,         \* this.apiKeyInput.value.trim(): "blank" or "set"
    response,       \* the local `response` of agentLoop: the last one received
    tasks,          \* the promises handed to Promise.all, one per tool call
    finished,       \* indices of the settled promises, in the order they settled
    orphans,        \* tool calls still running whose batch was abandoned
    alerts,         \* error alerts currently shown in alertContainer
    lastInput,      \* how the last handleUserInput call returned
    llmPc,          \* where one provider request is: idle, sent, vendor, answered, done
    caller,         \* who made the request: the browser's callLLM or another client
    req,            \* req.body of POST /api/llm
    live,           \* the vendor call of the request: none, calling, ok, failed
    res,            \* what /api/llm answered: status and body
    outcome,        \* what callLLM handed to agentLoop, and what agentLoop did with it
    searchCache,    \* this.searchCache of the page, in insertion order
    serverCache,    \* searchCache of server.js, in insertion order
    sinceSearch,    \* Date.now() - this.lastSearchTime, up to searchCooldown
    searches,       \* the googleSearch activations
    returned,       \* the last SearchResponse googleSearch returned
    lookup,         \* a google_search that finds no backend, and its outcome
    tool,           \* a request to a tool endpoint, and its outcome
    mock,           \* a mock responder invoked on a conversation, and what it returned
    turn,           \* the lengths of what a turn displays and stores
    keyed,          \* two searches and the cache keys made for them
    dom,            \* the message elements the page renders
    cred            \* the server's search cache and a request with or without credentials

agentVars == <<conversation, isProcessing, pc, agentLoops, apiKey, response,
               tasks, finished, orphans, alerts, lastInput>>

llmVars == <<llmPc, caller, req, live, res, outcome>>

searchVars == <<searchCache, serverCache, sinceSearch, searches, returned>>

fallbackVars == <<lookup>>

toolVars == <<tool>>

mockVars == <<mock>>

turnVars == <<turn>>

keyVars == <<keyed>>

domVars == <<dom>>

credVars == <<cred>>

vars == <<agentVars, llmVars, searchVars, fallbackVars, toolVars, mockVars, turnVars,
          keyVars, domVars, credVars>>

----------------------------------------------------------------------------
(* Bounds of the model *)

\* this.maxConversationLength (50 in the program), scaled down
maxConversationLength == 2
\* largest number of tool calls the provider puts in one response
MaxBatch == 2
\* this.cacheTTL (3 minutes in the program), in ticks
cacheTTL == 1
\* this.searchCooldown (1000 ms in the program), in ticks
searchCooldown == 1
\* this.maxCacheEntries (50 in the program)
maxCacheEntries == 1

\* CACHE_TTL of server.js (5 minutes): longer than the page's
CACHE_TTL == cacheTTL + 1
\* MAX_CACHE_SIZE of server.js (100 in the program)
MAX_CACHE_SIZE == maxCacheEntries

\* tool_call_id of an entry that carries none
None == 0
\* the ids of the tool calls of one response
Ids == 1..MaxBatch

----------------------------------------------------------------------------
(* Texts *)

Keywords == {"interview", "blog", "ibm", "next", "ai", "search", "code", "analyze"}

\* what the user types (non-empty after trim)
UserInputs == { {}, {"search"}, {"analyze"} }

\* the input box holding nothing but white space
EmptyInput == {"<empty>"}

UserEntry(text) ==
    [role |-> "user", content |-> text, tool_calls |-> <<>>, tool_call_id |-> None]

AssistantEntry(resp) ==
    [role |-> "assistant", content |-> resp.content,
     tool_calls |-> resp.tool_calls, tool_call_id |-> None]

ToolEntry(id, text) ==
    [role |-> "tool", content |-> text, tool_calls |-> <<>>, tool_call_id |-> id]

ToolCall(id, name, args) == [id |-> id, name |-> name, args |-> args]

ToolNames == {"google_search", "ai_pipe", "execute_javascript"}

----------------------------------------------------------------------------
(* Mock responder: LLMAgent.getMockLLMResponse *)

\* the keywords of msg.content
Text(entry) == entry.content \cap Keywords

\* conversation.map(msg => msg.content).join(' ').toLowerCase()
conversationHistory(conv) == UNION { Text(conv[i]) : i \in 1..Len(conv) }

\* the part of the input left once the search/find words are taken out
extractSearchTerm(input) == input \ {"search"}

\* "Hello! I'm a OPENAI gpt-4o response in demo mode. "
Greeting == {"ai"}

\* the five interviewResponses; only the fourth ('research') holds a keyword
interviewResponses == << {}, {}, {}, {"search"}, {} >>

\* a reply whose content is the empty string
MockReply_Empty(text) == [content |-> EmptyInput, tool_calls |-> <<>>]

MockReply(text) == [content |-> text, tool_calls |-> <<>>]

MockCall(text, id, name, args) ==
    [content |-> text, tool_calls |-> << ToolCall(id, name, args) >>]

\* the responses getMockLLMResponse can return on conv; id is the id of its
\* one tool call and the choice among interviewResponses is Math.random()
getMockLLMResponse(conv, id) ==
    LET userInput == IF conv = <<>> THEN {} ELSE Text(conv[Len(conv)])
        history   == conversationHistory(conv)
    IN  IF {"interview", "blog"} \subseteq userInput
          THEN { MockReply({"blog"}) }
        ELSE IF "ibm" \in userInput /\ ({"interview", "blog"} \cap history # {})
          THEN { MockCall({"search", "ibm", "blog"}, id, "google_search", {"ibm", "ai"}) }
        ELSE IF "next" \in userInput /\ "ibm" \in history
          THEN { MockReply({"search", "ibm", "ai"}) }
        ELSE IF "ibm" \in history /\ "ai" \in userInput
          THEN { MockCall({"ibm", "ai"}, id, "google_search", {"ibm", "ai"}) }
        ELSE IF "search" \in userInput
          THEN { MockCall(Greeting \cup {"search"} \cup extractSearchTerm(userInput),
                          id, "google_search", extractSearchTerm(userInput)) }
        ELSE IF "code" \in userInput
          THEN { MockCall(Greeting \cup {"code"}, id, "execute_javascript", {}) }
        ELSE IF "analyze" \in userInput
          THEN { MockCall(Greeting \cup {"ai"}, id, "ai_pipe", {"analyze"} \cup userInput) }
        ELSE IF {"interview", "blog"} \cap history # {}
          THEN { MockReply(interviewResponses[r]) : r \in 1..Len(interviewResponses) }
        ELSE { MockReply(Greeting \cup {"search", "code", "ai"}) }

----------------------------------------------------------------------------
(* Tools: what JSON.stringify(result) can contain *)

\* getMinimalFallbackResults: the knowledge-base entry for 'ibm' or 'ai', or
\* the generic links; every variant names 'Google Search' or 'search' in
\* its note
getMinimalFallbackResults(query) ==
    query \cup {"search"} \cup (IF "ibm" \in query THEN {"ai"} ELSE {})

\* keywords in the result list /api/search may answer with: a live result
\* list without any, or the contextual links ('Google Search Results')
ServerSearchResults == { {}, {"search"} }

\* googleSearch: the cleaned server response (the server echoes the query),
\* or the client-side fallback when the request fails
googleSearch(query) ==
    { query \cup r : r \in ServerSearchResults } \cup { getMinimalFallbackResults(query) }

\* aiPipe: the server's {workflow, input, result} or the client's
\* 'Mock AI Pipe ...' text; both repeat the workflow and the data
aiPipe(args) == { args \cup {"ai"} }

\* executeJavaScript: {success, result, logs, error}, which does not repeat
\* the code; the outputs considered hold none of the keywords
executeJavaScript(code) == { {} }

\* the texts handleToolCall can put in the result of one call
ToolOutcomes(call) ==
    CASE call.name = "google_search"      -> googleSearch(call.args)
      [] call.name = "ai_pipe"            -> aiPipe(call.args)
      [] call.name = "execute_javascript" -> executeJavaScript(call.args)
      [] OTHER                            -> { {} }

\* an arguments string JSON.parse throws on
BadArgs == {"<malformed>"}

JSONparses(args) == args \subseteq Keywords

\* handleToolCall returns without awaiting anything: default branch of the switch
CompletesAtOnce(call) == call.name \notin ToolNames

----------------------------------------------------------------------------
(* What the provider may answer through /api/llm *)

\* a call the provider may request: its tool and its arguments string
LiveCallKinds ==
    { <<"execute_javascript", {}>>, <<"execute_javascript", BadArgs>>,
      <<"unknown_tool", {}>> }

\* the id of the i-th call of a response: the calls of one response carry
\* different ids
LiveId(i) == i

LiveBatchesOf(n) ==
    { [i \in 1..n |-> ToolCall(LiveId(i), kinds[i][1], kinds[i][2])] :
        kinds \in [1..n -> LiveCallKinds] }

LiveBatches == UNION { LiveBatchesOf(n) : n \in 0..MaxBatch }

LiveResponses == { [content |-> {}, tool_calls |-> b] : b \in LiveBatches }

NoResponse == [content |-> {}, tool_calls |-> <<>>]

----------------------------------------------------------------------------
(* State *)

\* a value that is undefined or null in the program
Undefined == {"<undefined>"}

\* a message content that is not a string: null, missing, or a list of parts
NonString == {"<nonstring>"}

\* messages of a request: missing, an object, a string, or an array of
\* messages given by their contents
Messages(kind, items) == [kind |-> kind, items |-> items]

NoCaller == [origin |-> "none", key |-> ""]

NoRequest ==
    [provider |-> "", model |-> "", messages |-> Messages("missing", <<>>),
     apiKey |-> ""]

\* nothing was answered yet
NoAnswer ==
    [status |-> "none", shape |-> "none", content |-> Undefined,
     tool_calls |-> <<>>, mock |-> FALSE]

NoOutcome == [state |-> "none", content |-> Undefined, tool_calls |-> <<>>]

\* the googleSearch activations that can run side by side
Slots == {"a", "b"}

\* no SearchResponse
NoResult == [cached |-> FALSE, data |-> "none", source |-> "none"]

\* an activation that has not started
NoSearch ==
    [stage |-> "idle", key |-> "none", wait |-> 0, prior |-> FALSE,
     result |-> NoResult]

NoReturn == [key |-> "none", since |-> 0, result |-> NoResult]

Init ==
    /\ conversation = <<>>
    /\ isProcessing = FALSE
    /\ pc = "idle"
    /\ agentLoops = 0
    /\ apiKey = "blank"
    /\ response = NoResponse
    /\ tasks = <<>>
    /\ finished = <<>>
    /\ orphans = 0
    /\ alerts = {}
    /\ lastInput = "none"
    /\ llmPc = "idle"
    /\ caller = NoCaller
    /\ req = NoRequest
    /\ live = "none"
    /\ res = NoAnswer
    /\ outcome = NoOutcome
    /\ searchCache = <<>>
    /\ serverCache = <<>>
    /\ sinceSearch = searchCooldown
    /\ searches = [s \in Slots |-> NoSearch]
    /\ returned = NoReturn
    /\ lookup = [stage |-> "idle",
                 query |-> [length |-> 1, topic |-> "none", surrogate |-> "none"],
                 count |-> [kind |-> "absent", value |-> 0], failure |-> "none",
                 results |-> <<>>, source |-> "none"]
    /\ tool = [stage |-> "idle", name |-> "none", caller |-> "none", body |-> "json",
               workflow |-> "", data |-> "", code |-> "", kind |-> "missing",
               query |-> [length |-> 1, topic |-> "none", surrogate |-> "none"],
               failure |-> "none", wiki |-> 0,
               res |-> [status |-> "none", completed |-> FALSE, success |-> FALSE,
                        error |-> FALSE, results |-> 0],
               outcome |-> [state |-> "none", completed |-> FALSE, success |-> FALSE,
                            error |-> FALSE]]
    /\ mock = [stage |-> "idle", side |-> "none", conv |-> <<>>,
               first |-> NoResponse, second |-> NoResponse]
    /\ turn = [box |-> [text |-> 0, padding |-> 0], last |-> "none",
               isProcessing |-> FALSE, pc |-> "idle", conversation |-> <<>>,
               shown |-> [type |-> "none", length |-> 0], content |-> 0]
    /\ keyed = [stage |-> "idle", first |-> <<>>, second |-> <<>>]
    /\ dom = [messages |-> <<1>>, created |-> 1]
    /\ cred = [cache |-> <<>>, stage |-> "idle", key |-> "none",
               credentials |-> "none", source |-> "none", cached |-> FALSE]

\* a promise returned by handleToolCall
Pending == [state |-> "pending", value |-> <<>>]
Fulfilled(entry) == [state |-> "fulfilled", value |-> <<entry>>]
Rejected == [state |-> "rejected", value |-> <<>>]

AllDone == \A i \in 1..Len(tasks) : tasks[i].state = "fulfilled"
AnyRejected == \E i \in 1..Len(tasks) : tasks[i].state = "rejected"

\* a continuation is queued as a microtask: it runs before any event,
\* timer or network callback
MicrotaskPending == pc = "mock" \/ (pc = "tools" /\ (AllDone \/ AnyRejected))

\* the sweep timer fires before further entries pile up
Room == Len(conversation) <= maxConversationLength

\* the 20 of this.conversation.slice(-20), as few as the model's
\* conversations need
messagesLimit == 2

\* messages: this.conversation.slice(-20) in the request of callLLM
requestMessages(conv) ==
    IF Len(conv) > messagesLimit
      THEN SubSeq(conv, Len(conv) - messagesLimit + 1, Len(conv))
      ELSE conv

\* callLLM up to its first await: reads the key afresh
callLLM == IF apiKey = "blank" THEN "mock" ELSE "live"

----------------------------------------------------------------------------
(* handleUserInput *)

\* handleUserInput without the isProcessing test of its first line
handleUserInput_NoBusyTest(input) ==
    /\ ~MicrotaskPending
    /\ IF input = EmptyInput
         THEN /\ lastInput' = "ignored"
              /\ UNCHANGED <<conversation, isProcessing, pc, agentLoops>>
         ELSE /\ Room
              /\ conversation' = Append(conversation, UserEntry(input))
              /\ isProcessing' = TRUE
              /\ agentLoops' = agentLoops + 1
              /\ pc' = IF pc = "tools" THEN pc ELSE callLLM
              /\ lastInput' = "accepted"
    /\ UNCHANGED <<apiKey, response, tasks, finished, orphans, alerts>>
    /\ UNCHANGED <<llmVars, searchVars, fallbackVars, toolVars, mockVars, turnVars,
                 keyVars, domVars, credVars>>

handleUserInput(input) ==
    /\ ~MicrotaskPending
    /\ IF input = EmptyInput \/ isProcessing
         THEN /\ lastInput' = "ignored"
              /\ UNCHANGED <<conversation, isProcessing, pc, agentLoops>>
         ELSE /\ Room
              /\ conversation' = Append(conversation, UserEntry(input))
              /\ isProcessing' = TRUE
              /\ agentLoops' = agentLoops + 1
              /\ pc' = callLLM
              /\ lastInput' = "accepted"
    /\ UNCHANGED <<apiKey, response, tasks, finished, orphans, alerts>>
    /\ UNCHANGED <<llmVars, searchVars, fallbackVars, toolVars, mockVars, turnVars,
                 keyVars, domVars, credVars>>

----------------------------------------------------------------------------
(* agentLoop *)

\* agentLoop returning without the setProcessing(false) of its finally block
Finally_NoReset ==
    /\ isProcessing' = isProcessing
    /\ agentLoops' = agentLoops - 1
    /\ pc' = "idle"
    /\ response' = NoResponse
    /\ tasks' = <<>>
    /\ finished' = <<>>

\* this.setProcessing(false) in the finally block, and the return of agentLoop
Finally ==
    /\ isProcessing' = FALSE
    /\ agentLoops' = agentLoops - 1
    /\ pc' = "idle"
    /\ response' = NoResponse
    /\ tasks' = <<>>
    /\ finished' = <<>>

\* the catch block: showAlert('Agent Error: ...')
Catch == alerts' = alerts \cup {"Agent Error"}

\* handleToolCall up to its first await: JSON.parse throws (the promise is
\* rejected), the switch falls to its default (the catch makes an error
\* result at once), or the tool is awaited
handleToolCall(call) ==
    IF ~JSONparses(call.args) THEN Rejected
    ELSE IF CompletesAtOnce(call) THEN Fulfilled(ToolEntry(call.id, {}))
    ELSE Pending

\* the loop body pushing the assistant entry before it runs the tool calls
agentLoopStep_PushFirst(resp) ==
    /\ IF resp.tool_calls = <<>>
         THEN /\ conversation' = Append(conversation, AssistantEntry(resp))
              /\ Finally
         ELSE /\ conversation' = Append(conversation, AssistantEntry(resp))
              /\ response' = resp
              /\ tasks' = [i \in 1..Len(resp.tool_calls) |->
                              handleToolCall(resp.tool_calls[i])]
              /\ finished' = SelectSeq([i \in 1..Len(resp.tool_calls) |-> i],
                                 LAMBDA i : CompletesAtOnce(resp.tool_calls[i]))
              /\ pc' = "tools"
              /\ UNCHANGED <<isProcessing, agentLoops>>
    /\ UNCHANGED <<apiKey, orphans, alerts, lastInput>>
    /\ UNCHANGED <<llmVars, searchVars, fallbackVars, toolVars, mockVars, turnVars,
                 keyVars, domVars, credVars>>

\* the loop body from the arrival of the provider response to the next await
agentLoopStep(resp) ==
    /\ IF resp.tool_calls = <<>>
         THEN /\ conversation' = Append(conversation, AssistantEntry(resp))
              /\ Finally
         ELSE /\ response' = resp
              /\ tasks' = [i \in 1..Len(resp.tool_calls) |->
                              handleToolCall(resp.tool_calls[i])]
              /\ finished' = SelectSeq([i \in 1..Len(resp.tool_calls) |-> i],
                                 LAMBDA i : CompletesAtOnce(resp.tool_calls[i]))
              /\ pc' = "tools"
              /\ UNCHANGED <<conversation, isProcessing, agentLoops>>
    /\ UNCHANGED <<apiKey, orphans, alerts, lastInput>>
    /\ UNCHANGED <<llmVars, searchVars, fallbackVars, toolVars, mockVars, turnVars,
                 keyVars, domVars, credVars>>

\* the calls of a batch whose handleToolCall throws on JSON.parse
Throwing(batch) == { i \in 1..Len(batch) : ~JSONparses(batch[i].args) }

\* callLLM without a key: getMockLLMResponse, resolved in the same tick
MockRespond ==
    /\ pc = "mock"
    /\ \E resp \in getMockLLMResponse(conversation, LiveId(1)) :
          agentLoopStep(resp)

\* callLLM with a key: the answer of /api/llm arrives
LiveRespond ==
    /\ pc = "live"
    /\ Room
    /\ \E resp \in LiveResponses :
          /\ Throwing(resp.tool_calls) # {} => orphans = 0
          /\ agentLoopStep(resp)

\* callLLM with a key: fetch fails or the answer is not ok, callLLM throws
LiveThrow ==
    /\ pc = "live"
    /\ Catch
    /\ Finally
    /\ UNCHANGED <<conversation, apiKey, orphans, lastInput>>
    /\ UNCHANGED <<llmVars, searchVars, fallbackVars, toolVars, mockVars, turnVars,
                 keyVars, domVars, credVars>>

\* one tool call of the running batch returns its result
ToolComplete(i) ==
    /\ ~MicrotaskPending
    /\ pc = "tools"
    /\ i \in 1..Len(tasks)
    /\ tasks[i].state = "pending"
    /\ Room
    /\ \E text \in ToolOutcomes(response.tool_calls[i]) :
          tasks' = [tasks EXCEPT
                      ![i] = Fulfilled(ToolEntry(response.tool_calls[i].id, text))]
    /\ finished' = Append(finished, i)
    /\ UNCHANGED <<conversation, isProcessing, pc, agentLoops, apiKey, response,
                   orphans, alerts, lastInput>>
    /\ UNCHANGED <<llmVars, searchVars, fallbackVars, toolVars, mockVars, turnVars,
                 keyVars, domVars, credVars>>

\* the results pushed in the order the calls finished
BatchEntries_AsFinished(resp, results) ==
    << AssistantEntry(resp) >> \o [i \in 1..Len(results) |-> results[finished[i]]]

\* the entries agentLoop pushes for a batch: the assistant entry, then
\* toolResults as Promise.all delivers them, in the order of the calls
BatchEntries(resp, results) == << AssistantEntry(resp) >> \o results

\* Promise.all resolves: push the assistant entry and the results, call the
\* provider again
Join ==
    /\ pc = "tools"
    /\ AllDone
    /\ ~AnyRejected
    /\ conversation' = conversation \o
           BatchEntries(response, [i \in 1..Len(tasks) |-> tasks[i].value[1]])
    /\ pc' = callLLM
    /\ UNCHANGED <<isProcessing, agentLoops, apiKey, response, tasks, finished,
                   orphans, alerts, lastInput>>
    /\ UNCHANGED <<llmVars, searchVars, fallbackVars, toolVars, mockVars, turnVars,
                 keyVars, domVars, credVars>>

\* a rejected batch that leaves its assistant entry in the conversation
Reject_KeepsAssistant ==
    /\ pc = "tools"
    /\ AnyRejected
    /\ Catch
    /\ Finally
    /\ orphans' = orphans +
           Cardinality({ i \in 1..Len(tasks) : tasks[i].state = "pending" })
    /\ conversation' = Append(conversation, AssistantEntry(response))
    /\ UNCHANGED <<apiKey, lastInput>>
    /\ UNCHANGED <<llmVars, searchVars, fallbackVars, toolVars, mockVars, turnVars,
                   keyVars, domVars, credVars>>

\* Promise.all rejects: catch and finally run, the pending calls run on
Reject ==
    /\ pc = "tools"
    /\ AnyRejected
    /\ Catch
    /\ Finally
    /\ orphans' = orphans +
           Cardinality({ i \in 1..Len(tasks) : tasks[i].state = "pending" })
    /\ UNCHANGED <<conversation, apiKey, lastInput>>
    /\ UNCHANGED <<llmVars, searchVars, fallbackVars, toolVars, mockVars, turnVars,
                 keyVars, domVars, credVars>>

\* a tool call of an abandoned batch returns; nobody awaits it
OrphanComplete ==
    /\ ~MicrotaskPending
    /\ orphans > 0
    /\ orphans' = orphans - 1
    /\ UNCHANGED <<conversation, isProcessing, pc, agentLoops, apiKey, response,
                   tasks, finished, alerts, lastInput>>
    /\ UNCHANGED <<llmVars, searchVars, fallbackVars, toolVars, mockVars, turnVars,
                 keyVars, domVars, credVars>>

----------------------------------------------------------------------------
(* Memory management and the other controls *)

\* a sweep that keeps the oldest maxConversationLength entries
cleanConversationMemory_OldestOnly(conv) ==
    IF Len(conv) > maxConversationLength
      THEN SubSeq(conv, 1, maxConversationLength)
      ELSE conv

\* a sweep that keeps the most recent maxConversationLength entries and
\* not the first one
cleanConversationMemory_RecentOnly(conv) ==
    IF Len(conv) > maxConversationLength
      THEN SubSeq(conv, Len(conv) - maxConversationLength + 1, Len(conv))
      ELSE conv

\* cleanConversationMemory
cleanConversationMemory(conv) ==
    IF Len(conv) > maxConversationLength
      THEN << conv[1] >> \o
           SubSeq(conv, Len(conv) - (maxConversationLength - 1) + 1, Len(conv))
      ELSE conv

\* the setInterval of startCleanupInterval fires
Sweep ==
    /\ ~MicrotaskPending
    /\ Len(conversation) > maxConversationLength
    /\ conversation' = cleanConversationMemory(conversation)
    /\ UNCHANGED <<isProcessing, pc, agentLoops, apiKey, response, tasks,
                   finished, orphans, alerts, lastInput>>
    /\ UNCHANGED <<llmVars, searchVars, fallbackVars, toolVars, mockVars, turnVars,
                 keyVars, domVars, credVars>>

\* clearChat, confirmed by the user
clearChat ==
    /\ ~MicrotaskPending
    /\ conversation # <<>>
    /\ conversation' = <<>>
    /\ UNCHANGED <<isProcessing, pc, agentLoops, apiKey, response, tasks,
                   finished, orphans, alerts, lastInput>>
    /\ UNCHANGED <<llmVars, searchVars, fallbackVars, toolVars, mockVars, turnVars,
                 keyVars, domVars, credVars>>

\* the user types or deletes the key in apiKeyInput; the model lets this
\* happen between conversations only
EditApiKey ==
    /\ pc = "idle"
    /\ conversation = <<>>
    /\ apiKey' = IF apiKey = "blank" THEN "set" ELSE "blank"
    /\ UNCHANGED <<conversation, isProcessing, pc, agentLoops, response, tasks,
                   finished, orphans, alerts, lastInput>>
    /\ UNCHANGED <<llmVars, searchVars, fallbackVars, toolVars, mockVars, turnVars,
                 keyVars, domVars, credVars>>

\* the setTimeout of showAlert removes the alert
AlertExpires ==
    /\ ~MicrotaskPending
    /\ \E a \in alerts : alerts' = alerts \ {a}
    /\ UNCHANGED <<conversation, isProcessing, pc, agentLoops, apiKey, response,
                   tasks, finished, orphans, lastInput>>
    /\ UNCHANGED <<llmVars, searchVars, fallbackVars, toolVars, mockVars, turnVars,
                 keyVars, domVars, credVars>>

----------------------------------------------------------------------------

Next ==
    \/ \E input \in UserInputs \cup {EmptyInput} : handleUserInput(input)
    \/ MockRespond
    \/ LiveRespond
    \/ LiveThrow
    \/ \E i \in 1..MaxBatch : ToolComplete(i)
    \/ Join
    \/ Reject
    \/ OrphanComplete
    \/ Sweep
    \/ clearChat
    \/ EditApiKey
    \/ AlertExpires

Spec == Init /\ [][Next]_vars

\* Queued continuations always run, the interval timer keeps firing, every
\* fetch settles (it carries AbortSignal.timeout), every tool call returns
FairSpec ==
    /\ Spec
    /\ WF_vars(MockRespond)
    /\ WF_vars(LiveRespond \/ LiveThrow)
    /\ WF_vars(\E i \in 1..MaxBatch : ToolComplete(i))
    /\ WF_vars(Join)
    /\ WF_vars(Reject)
    /\ WF_vars(Sweep)

TypeOK ==
    /\ isProcessing \in BOOLEAN
    /\ pc \in {"idle", "mock", "live", "tools"}
    /\ agentLoops \in 0..1
    /\ apiKey \in {"blank", "set"}
    /\ orphans \in 0..MaxBatch
    /\ lastInput \in {"none", "accepted", "ignored"}

----------------------------------------------------------------------------
(* One provider request: callLLM in the browser, POST /api/llm in server.js *)

\* the providers the switch of /api/llm knows
Providers == {"openai", "anthropic", "google", "aipipe"}

\* provider of a request: absent, one of the four, or another string
ProviderValues == {"<missing>", "other"} \cup Providers

ModelValues == {"<missing>", "gpt-4o"}

\* apiKey of a request: absent, empty, blank, the two sentinel strings, a
\* string no vendor accepts, a key of the right shape, a number
KeyValues == {"<missing>", "", "  ", "undefined", "null", "abc", "sk-valid", "<number>"}

\* what the key field of the page can hold
KeyFields == {"", "  ", "undefined", "null", "abc", "sk-valid"}

\* String.prototype.trim
trim(k) == IF k = "  " THEN "" ELSE k

\* !v
Falsy(v) == v \in {"<missing>", ""}

MessageContents == { {}, {"search"}, {"code"}, {"analyze"}, NonString }

RequestMessages ==
    { Messages("missing", <<>>), Messages("object", <<>>),
      Messages("string", <<>>), Messages("array", <<>>) }
      \cup { Messages("array", <<c>>) : c \in MessageContents }

Requests ==
    [provider : ProviderValues, model : ModelValues,
     messages : RequestMessages, apiKey : KeyValues]

\* the demo-mode test without its comparison to 'undefined' and 'null'
ServerKeyBlank_NoSentinels(k) == Falsy(k) \/ trim(k) = ""

\* the demo-mode test of /api/llm on a key that is a string or absent
ServerKeyBlank(k) == Falsy(k) \/ trim(k) = "" \/ k \in {"undefined", "null"}

\* the key-format test at the top of callOpenAI, callAnthropic, callGemini
\* and callAIPipe
KeyShapeOk(k) == k = "sk-valid"

\* messages[messages.length - 1] of getMockResponse, when there is one
LastMessage(messages) ==
    IF messages.kind = "array" /\ messages.items # <<>>
      THEN messages.items[Len(messages.items)]
      ELSE {}

\* getMockResponse throws a TypeError: lastMessage.content.toLowerCase() on
\* a content that is no string, or on the last character of a string
MockThrows(messages) ==
    \/ messages.kind = "string"
    \/ LastMessage(messages) = NonString

\* extractSearchTermFromInput
extractSearchTermFromInput(input) == input \ {"search"}

ChoicesBody(content, calls) ==
    [shape |-> "choices", content |-> content, tool_calls |-> calls, mock |-> TRUE]

\* getMockResponse: {choices: [{message: {role, content, tool_calls}}]}
getMockResponse(provider, model, messages) ==
    LET userInput == LastMessage(messages)
    IN  IF "search" \in userInput
          THEN ChoicesBody(Greeting \cup {"search"} \cup extractSearchTermFromInput(userInput),
                 << ToolCall(LiveId(1), "google_search",
                             extractSearchTermFromInput(userInput)) >>)
        ELSE IF "code" \in userInput
          THEN ChoicesBody(Greeting \cup {"code"},
                 << ToolCall(LiveId(1), "execute_javascript", {}) >>)
        ELSE IF "analyze" \in userInput
          THEN ChoicesBody(Greeting \cup {"ai"},
                 << ToolCall(LiveId(1), "ai_pipe", {"analyze"} \cup userInput) >>)
        ELSE ChoicesBody(Greeting \cup {"search", "code", "ai"}, <<>>)

\* {error: ...}
ErrorBody ==
    [shape |-> "error", content |-> Undefined, tool_calls |-> <<>>, mock |-> FALSE]

\* {content, tool_calls} as callOpenAI and the others build it
FlatBody(content, calls) ==
    [shape |-> "flat", content |-> content, tool_calls |-> calls, mock |-> FALSE]

Answer(status, body) ==
    [status |-> status, shape |-> body.shape, content |-> body.content,
     tool_calls |-> body.tool_calls, mock |-> body.mock]

\* the outer catch of /api/llm: res.status(500).json(getMockResponse(...)).
\* When getMockResponse throws again the handler's promise is rejected:
\* Express 4 answers nothing, Express 5 hands the error to the error
\* middleware, which answers 500
OuterCatch(r) ==
    IF MockThrows(r.messages)
      THEN { NoAnswer, Answer("500", ErrorBody) }
      ELSE { Answer("500", getMockResponse(r.provider, r.model, r.messages)) }

\* res.json(getMockResponse(...)) inside the outer try
MockAnswer(r) ==
    IF MockThrows(r.messages)
      THEN OuterCatch(r)
      ELSE { Answer("200", getMockResponse(r.provider, r.model, r.messages)) }

\* the request misses a required parameter
MissingParameters(r) ==
    Falsy(r.provider) \/ Falsy(r.model) \/ r.messages.kind = "missing"

\* /api/llm reaches the switch and calls the vendor
CallsVendor(r) ==
    /\ ~MissingParameters(r)
    /\ r.messages.kind = "array"
    /\ r.apiKey # "<number>"
    /\ ~ServerKeyBlank(r.apiKey)
    /\ r.provider \in Providers

\* what /api/llm answers when it does not call a vendor
AnswersWithoutVendor(r) ==
    IF MissingParameters(r) THEN { Answer("400", ErrorBody) }
    ELSE IF r.messages.kind # "array" THEN OuterCatch(r)   \* messages.map
    ELSE IF r.apiKey = "<number>" THEN OuterCatch(r)       \* apiKey.trim
    ELSE IF ServerKeyBlank(r.apiKey) THEN MockAnswer(r)
    ELSE { Answer("400", ErrorBody) }                      \* default of the switch

\* what a vendor call can return: text, a tool call, or both
VendorBodies ==
    { FlatBody({}, <<>>),
      FlatBody({}, << ToolCall(LiveId(1), "execute_javascript", {}) >>),
      FlatBody({"search"}, << ToolCall(LiveId(1), "google_search", {}) >>) }

\* what agentLoop does with the value callLLM returns: it shows
\* response.content and dispatches response.tool_calls
Returned(content, calls) ==
    [state |-> "returned", content |-> content, tool_calls |-> calls]

\* callLLM throws: agentLoop shows the alert and the turn is over
Threw == [state |-> "threw", content |-> Undefined, tool_calls |-> <<>>]

\* callLLM up to its first await: without a key the mock responder of the
\* page answers, with a key the request goes to /api/llm
callLLMRequest(field, provider, text) ==
    /\ llmPc = "idle"
    /\ caller' = [origin |-> "client", key |-> trim(field)]
    /\ IF trim(field) = ""
         THEN /\ \E m \in getMockLLMResponse(<< UserEntry(text) >>, LiveId(1)) :
                    outcome' = Returned(m.content, m.tool_calls)
              /\ llmPc' = "done"
              /\ UNCHANGED req
         ELSE /\ req' = [provider |-> provider, model |-> "gpt-4o",
                         messages |-> Messages("array", << text >>),
                         apiKey |-> trim(field)]
              /\ llmPc' = "sent"
              /\ UNCHANGED outcome
    /\ UNCHANGED <<live, res>>
    /\ UNCHANGED <<agentVars, searchVars, fallbackVars, toolVars, mockVars, turnVars,
                 keyVars, domVars, credVars>>

\* another client posts a request to /api/llm
DirectRequest(r) ==
    /\ llmPc = "idle"
    /\ caller' = [origin |-> "direct", key |-> ""]
    /\ req' = r
    /\ llmPc' = "sent"
    /\ UNCHANGED <<live, res, outcome>>
    /\ UNCHANGED <<agentVars, searchVars, fallbackVars, toolVars, mockVars, turnVars,
                 keyVars, domVars, credVars>>

\* the handler of POST /api/llm up to its answer or its vendor call
apiLlm ==
    /\ llmPc = "sent"
    /\ IF CallsVendor(req)
         THEN /\ llmPc' = "vendor"
              /\ live' = "calling"
              /\ UNCHANGED res
         ELSE /\ \E a \in AnswersWithoutVendor(req) : res' = a
              /\ llmPc' = "answered"
              /\ UNCHANGED live
    /\ UNCHANGED <<caller, req, outcome>>
    /\ UNCHANGED <<agentVars, searchVars, fallbackVars, toolVars, mockVars, turnVars,
                 keyVars, domVars, credVars>>

\* the vendor answers and the handler passes the answer on
VendorReturns ==
    /\ llmPc = "vendor"
    /\ KeyShapeOk(req.apiKey)
    /\ \E b \in VendorBodies : res' = Answer("200", b)
    /\ live' = "ok"
    /\ llmPc' = "answered"
    /\ UNCHANGED <<caller, req, outcome>>
    /\ UNCHANGED <<agentVars, searchVars, fallbackVars, toolVars, mockVars, turnVars,
                 keyVars, domVars, credVars>>

\* the vendor call throws (key format, network, status, payload): the inner
\* catch answers with getMockResponse
VendorThrows ==
    /\ llmPc = "vendor"
    /\ \E a \in MockAnswer(req) : res' = a
    /\ live' = "failed"
    /\ llmPc' = "answered"
    /\ UNCHANGED <<caller, req, outcome>>
    /\ UNCHANGED <<agentVars, searchVars, fallbackVars, toolVars, mockVars, turnVars,
                 keyVars, domVars, credVars>>

\* fetch('/api/llm') fails in the browser: callLLM throws
FetchFails ==
    /\ llmPc = "sent"
    /\ caller.origin = "client"
    /\ res' = [NoAnswer EXCEPT !.status = "unreachable"]
    /\ outcome' = Threw
    /\ llmPc' = "done"
    /\ UNCHANGED <<caller, req, live>>
    /\ UNCHANGED <<agentVars, searchVars, fallbackVars, toolVars, mockVars, turnVars,
                 keyVars, domVars, credVars>>

\* callLLM after its fetch: throws unless response.ok (or when the signal
\* times out on a request never answered), else returns the body as it is
callLLMResult ==
    /\ llmPc = "answered"
    /\ caller.origin = "client"
    /\ outcome' =
         IF res.status # "200" THEN Threw
         ELSE IF res.shape = "flat" THEN Returned(res.content, res.tool_calls)
         ELSE Returned(Undefined, <<>>)
    /\ llmPc' = "done"
    /\ UNCHANGED <<caller, req, live, res>>
    /\ UNCHANGED <<agentVars, searchVars, fallbackVars, toolVars, mockVars, turnVars,
                 keyVars, domVars, credVars>>

\* the other client has its answer
DirectResult ==
    /\ llmPc = "answered"
    /\ caller.origin = "direct"
    /\ llmPc' = "done"
    /\ UNCHANGED <<caller, req, live, res, outcome>>
    /\ UNCHANGED <<agentVars, searchVars, fallbackVars, toolVars, mockVars, turnVars,
                 keyVars, domVars, credVars>>

\* the request is over
LlmDone ==
    /\ llmPc = "done"
    /\ llmPc' = "idle"
    /\ caller' = NoCaller
    /\ req' = NoRequest
    /\ live' = "none"
    /\ res' = NoAnswer
    /\ outcome' = NoOutcome
    /\ UNCHANGED <<agentVars, searchVars, fallbackVars, toolVars, mockVars, turnVars,
                 keyVars, domVars, credVars>>

LlmNext ==
    \/ \E field \in KeyFields, provider \in Providers, text \in UserInputs :
          callLLMRequest(field, provider, text)
    \/ \E r \in Requests : DirectRequest(r)
    \/ apiLlm
    \/ VendorReturns
    \/ VendorThrows
    \/ FetchFails
    \/ callLLMResult
    \/ DirectResult
    \/ LlmDone

LlmSpec == Init /\ [][LlmNext]_vars

----------------------------------------------------------------------------
(* google_search: googleSearch in the browser, POST /api/search in server.js *)

\* Time is counted in ticks.  A cache entry holds the age Date.now() -
\* timestamp of the program instead of its timestamp, and sinceSearch holds
\* Date.now() - lastSearchTime; an age stops growing once it is past every
\* test the program makes on it.

\* cache keys: query.toLowerCase() + '_' + numResults
Keys == {"ibm_5", "cats_5"}

\* the result lists a lookup of the backend brings back, cleaned; the list of
\* getMinimalFallbackResults is another one
Results == {"r1"}

Min(a, b) == IF a < b THEN a ELSE b

\* {data, timestamp: Date.now()}
Entry(key, data) == [key |-> key, age |-> 0, data |-> data]

\* Map.has
Has(cache, key) == \E i \in 1..Len(cache) : cache[i].key = key

\* Map.get, for a key the map has
get(cache, key) == cache[CHOOSE i \in 1..Len(cache) : cache[i].key = key]

\* Map.set: a key the map has keeps its place
set(cache, key, data) ==
    IF Has(cache, key)
      THEN [i \in 1..Len(cache) |->
              IF cache[i].key = key THEN Entry(key, data) ELSE cache[i]]
      ELSE Append(cache, Entry(key, data))

\* the entry a descending sort would put first: the newest one
Oldest_Newest(cache) ==
    CHOOSE i \in 1..Len(cache) :
        \A j \in 1..Len(cache) :
            \/ cache[j].age > cache[i].age
            \/ cache[j].age = cache[i].age /\ i <= j

\* the entry that sort((a, b) => a.timestamp - b.timestamp) puts first: the
\* oldest one, the first inserted among equals
Oldest(cache) ==
    CHOOSE i \in 1..Len(cache) :
        \A j \in 1..Len(cache) :
            \/ cache[j].age < cache[i].age
            \/ cache[j].age = cache[i].age /\ i <= j

Remove(cache, i) == SubSeq(cache, 1, i - 1) \o SubSeq(cache, i + 1, Len(cache))

RECURSIVE RemoveOldest(_, _)
\* entries.slice(0, n) of the sorted entries, deleted
RemoveOldest(cache, n) ==
    IF n <= 0 THEN cache ELSE RemoveOldest(Remove(cache, Oldest(cache)), n - 1)

\* the body shared by cleanSearchCache and cleanCache: delete what is older
\* than ttl, then the oldest entries above max
CleanEntries(cache, ttl, max) ==
    LET kept == SelectSeq(cache, LAMBDA e : ~(e.age > ttl))
    IN  RemoveOldest(kept, Len(kept) - max)

\* LLMAgent.cleanSearchCache
cleanSearchCache(cache) == CleanEntries(cache, cacheTTL, maxCacheEntries)

\* cleanCache of server.js
cleanCache(cache) == CleanEntries(cache, CACHE_TTL, MAX_CACHE_SIZE)

\* the test with <= in place of <
Fresh_UpToTTL(cache, key, ttl) == Has(cache, key) /\ get(cache, key).age <= ttl

\* cached && (Date.now() - cached.timestamp) < ttl
Fresh(cache, key, ttl) == Has(cache, key) /\ get(cache, key).age < ttl

\* a SearchResponse read from a cache: {...cached.data, cached: true}
CachedResult(cache, key, source) ==
    [cached |-> TRUE, data |-> get(cache, key).data, source |-> source]

\* getMinimalFallbackResults as a SearchResponse: it carries no cached field
FallbackResult ==
    [cached |-> FALSE, data |-> "fallback", source |-> "Minimal Fallback"]

\* the explicit return of googleSearch: the caller has the SearchResponse, and
\* a call made from now on comes after this one
Return(s, key, result) ==
    /\ returned' = [key |-> key, since |-> 0, result |-> result]
    /\ searches' = [o \in Slots |->
         IF o = s THEN NoSearch ELSE [searches[o] EXCEPT !.prior = FALSE]]

\* googleSearch from the rate limiter on: stamp lastSearchTime, clean the
\* cache, answer from it or send the request
Pass(s, call) ==
    LET cache == cleanSearchCache(searchCache)
    IN  /\ sinceSearch' = 0
        /\ searchCache' = cache
        /\ IF Fresh(cache, call.key, cacheTTL)
             THEN Return(s, call.key, CachedResult(cache, call.key, "page cache"))
             ELSE /\ searches' = [searches EXCEPT ![s] =
                        [call EXCEPT !.stage = "fetching", !.wait = 0]]
                  /\ UNCHANGED returned

\* googleSearch up to its first await
googleSearchCall(s, key) ==
    /\ searches[s].stage = "idle"
    /\ LET call == [NoSearch EXCEPT !.key = key, !.prior = (returned.key = key)]
       IN  IF sinceSearch < searchCooldown
             THEN /\ searches' = [searches EXCEPT ![s] =
                        [call EXCEPT !.stage = "cooldown",
                                     !.wait = searchCooldown - sinceSearch]]
                  /\ UNCHANGED <<searchCache, sinceSearch, returned>>
             ELSE Pass(s, call)
    /\ UNCHANGED serverCache
    /\ UNCHANGED <<agentVars, llmVars, fallbackVars, toolVars, mockVars, turnVars,
                 keyVars, domVars, credVars>>

\* the setTimeout of the rate limiter fires
CooldownOver(s) ==
    /\ searches[s].stage = "cooldown"
    /\ searches[s].wait = 0
    /\ Pass(s, searches[s])
    /\ UNCHANGED serverCache
    /\ UNCHANGED <<agentVars, llmVars, fallbackVars, toolVars, mockVars, turnVars,
                 keyVars, domVars, credVars>>

\* POST /api/search up to its answer from the cache or its first await
apiSearch(s) ==
    /\ searches[s].stage = "fetching"
    /\ LET cache == cleanCache(serverCache)
           key   == searches[s].key
       IN  /\ serverCache' = cache
           /\ searches' = [searches EXCEPT ![s] =
                IF Fresh(cache, key, CACHE_TTL)
                  THEN [@ EXCEPT !.stage = "answered",
                                 !.result = CachedResult(cache, key, "server cache")]
                  ELSE [@ EXCEPT !.stage = "backend"]]
    /\ UNCHANGED <<searchCache, sinceSearch, returned>>
    /\ UNCHANGED <<agentVars, llmVars, fallbackVars, toolVars, mockVars, turnVars,
                 keyVars, domVars, credVars>>

\* POST /api/search after performGoogleSearch or performFallbackSearch: the
\* results are cached and sent
apiSearchAnswer(s, data) ==
    /\ searches[s].stage = "backend"
    /\ serverCache' = set(serverCache, searches[s].key, data)
    /\ searches' = [searches EXCEPT ![s] =
         [@ EXCEPT !.stage = "answered",
                   !.result = [cached |-> FALSE, data |-> data,
                               source |-> "server"]]]
    /\ UNCHANGED <<searchCache, sinceSearch, returned>>
    /\ UNCHANGED <<agentVars, llmVars, fallbackVars, toolVars, mockVars, turnVars,
                 keyVars, domVars, credVars>>

\* googleSearch after its fetch: the cleaned result is cached unless the
\* server said it came from its cache, and returned
googleSearchReturn(s) ==
    /\ searches[s].stage = "answered"
    /\ searchCache' =
         IF searches[s].result.cached THEN searchCache
         ELSE set(searchCache, searches[s].key, searches[s].result.data)
    /\ Return(s, searches[s].key, searches[s].result)
    /\ UNCHANGED <<serverCache, sinceSearch>>
    /\ UNCHANGED <<agentVars, llmVars, fallbackVars, toolVars, mockVars, turnVars,
                 keyVars, domVars, credVars>>

\* the fetch fails or is not ok: the catch returns getMinimalFallbackResults
googleSearchFallback(s) ==
    /\ searches[s].stage = "fetching"
    /\ Return(s, searches[s].key, FallbackResult)
    /\ UNCHANGED <<searchCache, serverCache, sinceSearch>>
    /\ UNCHANGED <<agentVars, llmVars, fallbackVars, toolVars, mockVars, turnVars,
                 keyVars, domVars, credVars>>

\* the interval of startCleanupInterval fires (the conversation is short)
cleanupInterval ==
    /\ searchCache' = cleanSearchCache(searchCache)
    /\ searchCache' # searchCache
    /\ UNCHANGED <<serverCache, sinceSearch, searches, returned>>
    /\ UNCHANGED <<agentVars, llmVars, fallbackVars, toolVars, mockVars, turnVars,
                 keyVars, domVars, credVars>>

\* the cache cleanup interval of server.js fires
serverCleanupInterval ==
    /\ serverCache' = cleanCache(serverCache)
    /\ serverCache' # serverCache
    /\ UNCHANGED <<searchCache, sinceSearch, searches, returned>>
    /\ UNCHANGED <<agentVars, llmVars, fallbackVars, toolVars, mockVars, turnVars,
                 keyVars, domVars, credVars>>

Older(cache, ttl) ==
    [i \in 1..Len(cache) |-> [cache[i] EXCEPT !.age = Min(@ + 1, ttl + 1)]]

\* one tick of time passes; a timer that is due fires first
Tick ==
    /\ \A s \in Slots : ~(searches[s].stage = "cooldown" /\ searches[s].wait = 0)
    /\ searchCache' = Older(searchCache, cacheTTL)
    /\ serverCache' = Older(serverCache, CACHE_TTL)
    /\ sinceSearch' = Min(sinceSearch + 1, searchCooldown)
    /\ searches' = [s \in Slots |->
         IF searches[s].stage = "cooldown"
           THEN [searches[s] EXCEPT !.wait = @ - 1]
           ELSE searches[s]]
    /\ returned' = IF returned = NoReturn THEN returned
                   ELSE [returned EXCEPT !.since = Min(@ + 1, cacheTTL)]
    /\ UNCHANGED <<agentVars, llmVars, fallbackVars, toolVars, mockVars, turnVars,
                 keyVars, domVars, credVars>>

SearchNext ==
    \/ \E s \in Slots, key \in Keys : googleSearchCall(s, key)
    \/ \E s \in Slots : CooldownOver(s)
    \/ \E s \in Slots : apiSearch(s)
    \/ \E s \in Slots, data \in Results : apiSearchAnswer(s, data)
    \/ \E s \in Slots : googleSearchReturn(s)
    \/ \E s \in Slots : googleSearchFallback(s)
    \/ cleanupInterval
    \/ serverCleanupInterval
    \/ Tick

SearchSpec == Init /\ [][SearchNext]_vars

----------------------------------------------------------------------------
(* google_search without a backend: the fallback results *)

\* A string is its length and what the code tests on it: the topic of the
\* knowledge bases it contains, and whether it holds a surrogate pair that
\* substring(0, 200) cuts in two or a lone surrogate.

MAX_QUERY_LENGTH == 200

MAX_RESULTS == 10

TitleLimit == 150

SnippetLimit == 300

Max(a, b) == IF a > b THEN a ELSE b

QueryLengths == {1, 3, 138, 139, 200, 250}

\* the non-empty string queries
Queries ==
    {q \in [length : QueryLengths, topic : {"none", "ibm"},
            surrogate : {"none", "lone", "split"}] :
        /\ q.topic = "ibm" => q.length >= 3
        /\ q.surrogate = "split" => q.length > MAX_QUERY_LENGTH}

\* num_results of the tool call: a number, or absent
Counts ==
    [kind : {"number"}, value : {-1, 0, 1, 2, 3, 5, 10, 11}]
        \cup {[kind |-> "absent", value |-> 0]}

\* why the search has no backend results, or "none" when Google answers
Failures == {"none", "unreachable", "no credentials", "google fails"}

\* the page title the Wikipedia summary API may answer with, 0 for no page
WikiTitles == {0, 20, 160}

\* the longest title and snippet of the items Google answers with
GoogleItems == {[title |-> 60, snippet |-> 160], [title |-> 400, snippet |-> 900]}

FallbackLabels ==
    {"Knowledge Base", "Minimal Fallback", "Enhanced Knowledge Base",
     "Contextual Search Results", "Wikipedia + Knowledge Base", "Emergency Fallback"}

NoLookup ==
    [stage |-> "idle", query |-> [length |-> 1, topic |-> "none", surrogate |-> "none"],
     count |-> [kind |-> "absent", value |-> 0], failure |-> "none",
     results |-> <<>>, source |-> "none"]

\* Array.prototype.slice(0, n)
slice(items, n) == SubSeq(items, 1, Min(Max(n, 0), Len(items)))

\* query.trim().substring(0, 200)
substring(q) ==
    [q EXCEPT !.length = Min(@, MAX_QUERY_LENGTH),
              !.surrogate = IF @ = "split" THEN "lone" ELSE @]

\* Math.min(Math.max(parseInt(numResults) || 5, 1), 10)
clamp(count) ==
    LET parsed == IF count.kind = "number" /\ count.value # 0 THEN count.value ELSE 5
    IN  Min(Max(parsed, 1), MAX_RESULTS)

\* encodeURIComponent throws URIError on a lone surrogate
encodeURIComponentThrows(q) == q.surrogate = "lone"

Thrown == [threw |-> TRUE, results |-> <<>>, source |-> "none"]

Response(results, source) == [threw |-> FALSE, results |-> results, source |-> source]

\* LLMAgent.getMinimalFallbackResults
minimalFallbackResults(q, numResults) ==
    LET n == Min(numResults, 5)
    IN  IF q.topic = "ibm"
          THEN Response(slice(<<[title |-> 45, snippet |-> 104]>>, n), "Knowledge Base")
        ELSE IF encodeURIComponentThrows(q)
          THEN Thrown
        ELSE Response(slice(<< [title |-> q.length + 12, snippet |-> q.length + 75],
                               [title |-> q.length + 16, snippet |-> q.length + 68],
                               [title |-> q.length + 14, snippet |-> q.length + 57] >>, n),
                      "Minimal Fallback")

\* generateContextualResults of server.js, for a query without context words
generateContextualResults(q, numResults) ==
    slice(<< [title |-> q.length + 25, snippet |-> q.length + 109],
             [title |-> q.length + 33, snippet |-> q.length + 109],
             [title |-> q.length + 24, snippet |-> q.length + 92] >>, numResults)

\* getKnowledgeBaseResults of server.js
getKnowledgeBaseResults(q, numResults) ==
    IF q.topic = "ibm"
      THEN Response(slice(<< [title |-> 47, snippet |-> 124],
                             [title |-> 22, snippet |-> 121],
                             [title |-> 39, snippet |-> 128] >>, numResults),
                    "Enhanced Knowledge Base")
    ELSE IF encodeURIComponentThrows(q)
      THEN Thrown
    ELSE Response(generateContextualResults(q, numResults), "Contextual Search Results")

\* tryWikipediaSearch of server.js: the page found, or null
tryWikipediaSearch(q, wiki) ==
    IF encodeURIComponentThrows(q) \/ wiki = 0
      THEN <<>>
      ELSE <<[title |-> wiki, snippet |-> SnippetLimit]>>

\* performFallbackSearch of server.js
performFallbackSearch(q, numResults, wiki) ==
    LET page == tryWikipediaSearch(q, wiki)
        base == getKnowledgeBaseResults(q, numResults)
    IN  IF page # <<>> /\ ~base.threw
          THEN Response(slice(page \o base.results, numResults),
                        "Wikipedia + Knowledge Base")
          ELSE base

\* performGoogleSearch of server.js with items from Google
performGoogleSearch(numResults, item) ==
    Response(slice(<< [title |-> Min(item.title, TitleLimit),
                      snippet |-> Min(item.snippet, SnippetLimit)],
                      [title |-> 10, snippet |-> 20] >>, numResults),
             "Google Custom Search API")

\* POST /api/search with an empty cache; an error that reaches the catch of
\* the handler meets encodeURIComponent again there, and no answer is sent
apiSearchResponse(q, count, failure, wiki, item) ==
    LET query       == substring(q)
        num_results == clamp(count)
    IN  IF failure = "none"
          THEN performGoogleSearch(num_results, item)
          ELSE performFallbackSearch(query, num_results, wiki)

\* cleanedResult of googleSearch
cleanedResult(result, numResults) ==
    LET items == slice(result.results, numResults)
    IN  Response([i \in 1..Len(items) |->
                    [title |-> Min(items[i].title, TitleLimit),
                     snippet |-> Min(items[i].snippet, SnippetLimit)]],
                 result.source)

\* LLMAgent.googleSearch with an empty cache, from its validation to its return
googleSearchOutcome(q, count, failure, wiki, item) ==
    LET query      == substring(q)
        numResults == clamp(count)
        answer     == apiSearchResponse(query, [kind |-> "number", value |-> numResults],
                                        failure, wiki, item)
    IN  IF failure = "unreachable" \/ answer.threw
          THEN minimalFallbackResults(query, numResults)
          ELSE cleanedResult(answer, numResults)

\* a google_search tool call runs to its end
googleSearchLookup(q, count, failure, wiki, item) ==
    /\ lookup.stage = "idle"
    /\ LET answer == googleSearchOutcome(q, count, failure, wiki, item)
       IN  lookup' = [stage |-> IF answer.threw THEN "threw" ELSE "returned",
                      query |-> q, count |-> count, failure |-> failure,
                      results |-> answer.results, source |-> answer.source]
    /\ UNCHANGED <<agentVars, llmVars, searchVars, toolVars, mockVars, turnVars,
                 keyVars, domVars, credVars>>

\* the caller is done with the outcome
LookupOver ==
    /\ lookup.stage # "idle"
    /\ lookup' = NoLookup
    /\ UNCHANGED <<agentVars, llmVars, searchVars, toolVars, mockVars, turnVars,
                 keyVars, domVars, credVars>>

FallbackNext ==
    \/ \E q \in Queries, count \in Counts, failure \in Failures,
          wiki \in WikiTitles, item \in GoogleItems :
            googleSearchLookup(q, count, failure, wiki, item)
    \/ LookupOver

FallbackSpec == Init /\ [][FallbackNext]_vars

----------------------------------------------------------------------------
(* The tool endpoints: aiPipe and /api/ai-pipe, executeJavaScript and
   /api/execute, /api/search called directly *)

\* an argument that is no string: missing from the arguments, or a number
NotAString == {"<undefined>", "<number>"}

\* !v, for the values of ArgValues (the number is not 0)
FalsyArg(v) == v \in {"<undefined>", ""}

Workflows == {"<undefined>", "<number>", "", "summarize", "custom"}

DataValues == {"<undefined>", "<number>", "", "some text"}

\* code: no string, empty, code that runs, code that throws an Error, code
\* that throws a value without a message, code that runs into the timeout
\* of the sandbox, code whose value JSON.stringify throws on
CodeValues ==
    {"<undefined>", "<number>", "", "1 + 1", "throw new Error('x')", "throw null",
     "while (true) {}", "10n"}

\* a request body: JSON, or text express.json cannot parse
Bodies == {"json", "malformed"}

\* the query of a request to /api/search: missing, no string, the empty
\* string, white space only, or a string of Queries
QueryKinds == {"missing", "nonstring", "empty", "blank", "string"}

NoQuery == [length |-> 1, topic |-> "none", surrogate |-> "none"]

NoToolAnswer ==
    [status |-> "none", completed |-> FALSE, success |-> FALSE, error |-> FALSE,
     results |-> 0]

NoToolOutcome ==
    [state |-> "none", completed |-> FALSE, success |-> FALSE, error |-> FALSE]

NoTool ==
    [stage |-> "idle", name |-> "none", caller |-> "none", body |-> "json",
     workflow |-> "", data |-> "", code |-> "",
     kind |-> "missing", query |-> NoQuery, failure |-> "none", wiki |-> 0,
     res |-> NoToolAnswer, outcome |-> NoToolOutcome]

\* res.status(status).json({error: ...})
ErrorAnswer(status) == [NoToolAnswer EXCEPT !.status = status, !.error = TRUE]

\* an error leaves the handler through its catch block: the promise of the
\* async handler is rejected, which Express 4 leaves without an answer and
\* Express 5 hands to the error middleware
HandlerRejects == { [NoToolAnswer EXCEPT !.status = "hung"], ErrorAnswer("500") }

\* what POST /api/ai-pipe answers
apiAiPipeAnswers(t) ==
    IF t.body = "malformed" THEN { ErrorAnswer("500") }
    ELSE IF FalsyArg(t.workflow) \/ FalsyArg(t.data) THEN { ErrorAnswer("400") }
    ELSE IF t.workflow \in NotAString THEN { ErrorAnswer("500") }   \* workflow.toLowerCase
    ELSE { [NoToolAnswer EXCEPT !.status = "200", !.completed = TRUE] }

\* what POST /api/execute answers
apiExecuteAnswers(t) ==
    IF t.body = "malformed" THEN { ErrorAnswer("500") }
    ELSE IF FalsyArg(t.code) \/ t.code \in NotAString THEN { ErrorAnswer("400") }
    ELSE IF t.code = "1 + 1"
      THEN { [NoToolAnswer EXCEPT !.status = "200", !.success = TRUE] }
    ELSE IF t.code = "throw null" THEN HandlerRejects              \* error.message
    ELSE { [NoToolAnswer EXCEPT !.status = "200", !.error = TRUE] }

\* what POST /api/search answers with an empty cache
apiSearchAnswers(t) ==
    IF t.body = "malformed" THEN { ErrorAnswer("500") }
    ELSE IF t.kind \in {"missing", "nonstring", "empty"} THEN { ErrorAnswer("400") }
    ELSE IF t.kind = "blank"
      THEN { [NoToolAnswer EXCEPT !.status = "200", !.results = 3] }
    ELSE LET r == apiSearchResponse(t.query, [kind |-> "absent", value |-> 0],
                                    t.failure, t.wiki, [title |-> 60, snippet |-> 160])
         IN  IF r.threw THEN HandlerRejects
             ELSE { [NoToolAnswer EXCEPT !.status = "200", !.results = Len(r.results)] }

\* the catch block of aiPipe: the mock result, built with data.substring
aiPipeCatch(t) ==
    IF t.data \in NotAString
      THEN [NoToolOutcome EXCEPT !.state = "threw"]
      ELSE [NoToolOutcome EXCEPT !.state = "returned", !.completed = TRUE]

\* a catch block that throws the error on
executeJavaScriptCatch_Rethrow == [NoToolOutcome EXCEPT !.state = "threw"]

\* the catch block of executeJavaScript
executeJavaScriptCatch == [NoToolOutcome EXCEPT !.state = "returned", !.error = TRUE]

\* aiPipe up to its fetch
aiPipeCall(workflow, data) ==
    /\ tool.stage = "idle"
    /\ LET t == [NoTool EXCEPT !.name = "ai_pipe", !.caller = "page",
                               !.workflow = workflow, !.data = data]
       IN  tool' = IF data \in NotAString
                     THEN [t EXCEPT !.stage = "over", !.outcome = aiPipeCatch(t)]
                     ELSE [t EXCEPT !.stage = "sent"]
    /\ UNCHANGED <<agentVars, llmVars, searchVars, fallbackVars, mockVars, turnVars,
                 keyVars, domVars, credVars>>

\* executeJavaScript up to its fetch
executeJavaScriptCall(code) ==
    /\ tool.stage = "idle"
    /\ LET t == [NoTool EXCEPT !.name = "execute_javascript", !.caller = "page",
                               !.code = code]
       IN  tool' = IF code = "<undefined>"                      \* code.length
                     THEN [t EXCEPT !.stage = "over", !.outcome = executeJavaScriptCatch]
                     ELSE [t EXCEPT !.stage = "sent"]
    /\ UNCHANGED <<agentVars, llmVars, searchVars, fallbackVars, mockVars, turnVars,
                 keyVars, domVars, credVars>>

\* a client other than the page posts to /api/execute
DirectExecute(body, code) ==
    /\ tool.stage = "idle"
    /\ tool' = [NoTool EXCEPT !.stage = "sent", !.name = "execute_javascript",
                              !.caller = "direct", !.body = body, !.code = code]
    /\ UNCHANGED <<agentVars, llmVars, searchVars, fallbackVars, mockVars, turnVars,
                 keyVars, domVars, credVars>>

\* a client posts to /api/search
DirectSearch(body, kind, q, failure, wiki) ==
    /\ tool.stage = "idle"
    /\ kind # "string" => (q = NoQuery /\ failure = "no credentials" /\ wiki = 0)
    /\ body = "malformed" => kind = "missing"
    /\ tool' = [NoTool EXCEPT !.stage = "sent", !.name = "search", !.caller = "direct",
                              !.body = body, !.kind = kind, !.query = q,
                              !.failure = failure, !.wiki = wiki]
    /\ UNCHANGED <<agentVars, llmVars, searchVars, fallbackVars, mockVars, turnVars,
                 keyVars, domVars, credVars>>

\* POST /api/ai-pipe
apiAiPipe ==
    /\ tool.stage = "sent"
    /\ tool.name = "ai_pipe"
    /\ \E answer \in apiAiPipeAnswers(tool) :
          tool' = [tool EXCEPT !.stage = "answered", !.res = answer]
    /\ UNCHANGED <<agentVars, llmVars, searchVars, fallbackVars, mockVars, turnVars,
                 keyVars, domVars, credVars>>

\* POST /api/execute
apiExecute ==
    /\ tool.stage = "sent"
    /\ tool.name = "execute_javascript"
    /\ \E answer \in apiExecuteAnswers(tool) :
          tool' = [tool EXCEPT !.stage = "answered", !.res = answer]
    /\ UNCHANGED <<agentVars, llmVars, searchVars, fallbackVars, mockVars, turnVars,
                 keyVars, domVars, credVars>>

\* POST /api/search
apiSearchDirect ==
    /\ tool.stage = "sent"
    /\ tool.name = "search"
    /\ \E answer \in apiSearchAnswers(tool) :
          tool' = [tool EXCEPT !.stage = "answered", !.res = answer]
    /\ UNCHANGED <<agentVars, llmVars, searchVars, fallbackVars, mockVars, turnVars,
                 keyVars, domVars, credVars>>

\* the fetch of the page rejects: the server cannot be reached, or it has
\* not answered when AbortSignal.timeout fires
ToolFetchFails ==
    /\ tool.caller = "page"
    /\ \/ tool.stage = "sent"
       \/ tool.stage = "answered" /\ tool.res.status = "hung"
    /\ tool' = [tool EXCEPT
                  !.stage = "over",
                  !.outcome = IF tool.name = "ai_pipe" THEN aiPipeCatch(tool)
                              ELSE executeJavaScriptCatch]
    /\ UNCHANGED <<agentVars, llmVars, searchVars, fallbackVars, mockVars, turnVars,
                 keyVars, domVars, credVars>>

\* aiPipe after its fetch
aiPipeReturn ==
    /\ tool.stage = "answered"
    /\ tool.name = "ai_pipe"
    /\ tool.res.status # "hung"
    /\ tool' = [tool EXCEPT
                  !.stage = "over",
                  !.outcome = IF tool.res.status = "200"
                                THEN [NoToolOutcome EXCEPT
                                        !.state = "returned",
                                        !.completed = tool.res.completed]
                                ELSE aiPipeCatch(tool)]
    /\ UNCHANGED <<agentVars, llmVars, searchVars, fallbackVars, mockVars, turnVars,
                 keyVars, domVars, credVars>>

\* executeJavaScript after its fetch
executeJavaScriptReturn ==
    /\ tool.stage = "answered"
    /\ tool.name = "execute_javascript"
    /\ tool.caller = "page"
    /\ tool.res.status # "hung"
    /\ tool' = [tool EXCEPT
                  !.stage = "over",
                  !.outcome = IF tool.res.status = "200"
                                THEN [NoToolOutcome EXCEPT
                                        !.state = "returned",
                                        !.success = tool.res.success,
                                        !.error = tool.res.error]
                                ELSE executeJavaScriptCatch]
    /\ UNCHANGED <<agentVars, llmVars, searchVars, fallbackVars, mockVars, turnVars,
                 keyVars, domVars, credVars>>

\* the client of a direct request has its answer, or gives up waiting
DirectAnswered ==
    /\ tool.stage = "answered"
    /\ tool.caller = "direct"
    /\ tool' = [tool EXCEPT !.stage = "over"]
    /\ UNCHANGED <<agentVars, llmVars, searchVars, fallbackVars, mockVars, turnVars,
                 keyVars, domVars, credVars>>

\* the caller is done with the outcome
ToolOver ==
    /\ tool.stage = "over"
    /\ tool' = NoTool
    /\ UNCHANGED <<agentVars, llmVars, searchVars, fallbackVars, mockVars, turnVars,
                 keyVars, domVars, credVars>>

ToolNext ==
    \/ \E workflow \in Workflows, data \in DataValues : aiPipeCall(workflow, data)
    \/ \E code \in CodeValues : executeJavaScriptCall(code)
    \/ \E body \in Bodies, code \in CodeValues : DirectExecute(body, code)
    \/ \E body \in Bodies, kind \in QueryKinds, q \in Queries,
          failure \in Failures \ {"unreachable"}, wiki \in WikiTitles :
            DirectSearch(body, kind, q, failure, wiki)
    \/ apiAiPipe
    \/ apiExecute
    \/ apiSearchDirect
    \/ ToolFetchFails
    \/ aiPipeReturn
    \/ executeJavaScriptReturn
    \/ DirectAnswered
    \/ ToolOver

ToolSpec == Init /\ [][ToolNext]_vars

----------------------------------------------------------------------------
(* The mock responders on their own: getMockLLMResponse of the page and
   getMockResponse of server.js, invoked on a conversation *)

\* what the user may have typed
MockInputs ==
    { {}, {"search"}, {"code"}, {"analyze"}, {"interview", "blog"}, {"interview"},
      {"ibm"}, {"next"}, {"ibm", "ai"} }

\* the conversation when callLLM runs: a first message, a message after a
\* turn that ended without tools, or a message followed by the tool request
\* made for it and the result of the tool
MockConversations ==
    LET firstTurn == { <<UserEntry(u)>> : u \in MockInputs }
    IN  firstTurn
        \cup UNION { { c \o <<AssistantEntry(r), UserEntry(u)>> : u \in MockInputs } :
                       c \in firstTurn,
                       r \in { x \in UNION { getMockLLMResponse(d, LiveId(1)) : d \in firstTurn } :
                                  x.tool_calls = <<>> } }
        \cup UNION { UNION { { c \o <<AssistantEntry(r), ToolEntry(r.tool_calls[1].id, t)>> :
                                 t \in ToolOutcomes(r.tool_calls[1]) } :
                               r \in { x \in getMockLLMResponse(c, LiveId(1)) :
                                          x.tool_calls # <<>> } } :
                       c \in firstTurn }

\* the messages the page sends for a conversation
MessagesOf(conv) == Messages("array", [i \in 1..Len(conv) |-> conv[i].content])

\* choices[0].message of what getMockResponse returns
MessageOf(body) == [content |-> body.content, tool_calls |-> body.tool_calls]

\* what the responder of a side can return on conv
MockResponses(side, conv) ==
    IF side = "page"
      THEN getMockLLMResponse(conv, LiveId(1))
      ELSE { MessageOf(getMockResponse("openai", "gpt-4o", MessagesOf(conv))) }

NoMock ==
    [stage |-> "idle", side |-> "none", conv |-> <<>>,
     first |-> NoResponse, second |-> NoResponse]

\* a mock responder is invoked
MockInvoke(side, conv) ==
    /\ mock.stage = "idle"
    /\ side = "server" => ~MockThrows(MessagesOf(conv))
    /\ \E resp \in MockResponses(side, conv) :
          mock' = [NoMock EXCEPT !.stage = "once", !.side = side, !.conv = conv,
                                 !.first = resp]
    /\ UNCHANGED <<agentVars, llmVars, searchVars, fallbackVars, toolVars, turnVars,
                 keyVars, domVars, credVars>>

\* the same responder is invoked again on the same conversation
MockAgain ==
    /\ mock.stage = "once"
    /\ \E resp \in MockResponses(mock.side, mock.conv) :
          mock' = [mock EXCEPT !.stage = "twice", !.second = resp]
    /\ UNCHANGED <<agentVars, llmVars, searchVars, fallbackVars, toolVars, turnVars,
                 keyVars, domVars, credVars>>

MockOver ==
    /\ mock.stage # "idle"
    /\ mock' = NoMock
    /\ UNCHANGED <<agentVars, llmVars, searchVars, fallbackVars, toolVars, turnVars,
                 keyVars, domVars, credVars>>

MockNext ==
    \/ \E side \in {"page", "server"}, conv \in MockConversations \cup {<<>>} :
          MockInvoke(side, conv)
    \/ MockAgain
    \/ MockOver

MockSpec == Init /\ [][MockNext]_vars

----------------------------------------------------------------------------
(* The lengths of what a turn displays and stores: handleUserInput,
   agentLoop, handleToolCall and addMessage, with a text reduced to its
   number of characters *)

\* input.substring(0, 2000) in handleUserInput
MaxInputLength == 2000

\* this.maxMessageLength
maxMessageLength == 5000

\* the characters of the marker addMessage puts after a shortened content
TruncationMarker == 67

\* what userInputEl can hold: text characters between white space
InputValues == { [text |-> n, padding |-> p] : n \in {0, 1, 2001}, p \in {0, 2} }

\* value.trim(): the characters left
trimmed(value) == value.text

\* the content of a provider response, 0 for none, and of a serialized tool result
ContentLengths == {0, 100, 6000}
ResultLengths  == {100, 6000}

LengthEntry(role, length) == [role |-> role, length |-> length]

NoShown == [type |-> "none", length |-> 0]

\* addMessage: the content as the page displays it
addMessage(type, length) ==
    [type |-> type,
     length |-> IF length > maxMessageLength
                  THEN maxMessageLength + TruncationMarker
                  ELSE length]

NoTurn ==
    [box |-> [text |-> 0, padding |-> 0], last |-> "none", isProcessing |-> FALSE,
     pc |-> "idle", conversation |-> <<>>, shown |-> NoShown, content |-> 0]

\* the cleanup interval fires before further entries pile up
TurnRoom == Len(turn.conversation) <= maxConversationLength

\* the user edits the input box; it is disabled while a turn is processed
TypeInput(value) ==
    /\ ~turn.isProcessing
    /\ value # turn.box
    /\ turn' = [turn EXCEPT !.box = value, !.last = "other"]
    /\ UNCHANGED <<agentVars, llmVars, searchVars, fallbackVars, toolVars, mockVars,
                 keyVars, domVars, credVars>>

\* the whole input, without the substring
limitedInput_Whole(input) == input

\* input.substring(0, 2000)
limitedInput(input) == Min(input, MaxInputLength)

\* handleUserInput, by the send button or the Enter key
handleUserInputTurn ==
    /\ turn.last # "handleUserInput"
    /\ LET input == trimmed(turn.box)
       IN  IF input = 0 \/ turn.isProcessing
             THEN turn' = [turn EXCEPT !.last = "handleUserInput"]
             ELSE /\ TurnRoom
                  /\ turn' = [turn EXCEPT
                        !.last = "handleUserInput",
                        !.shown = addMessage("user", limitedInput(input)),
                        !.box = [text |-> 0, padding |-> 0],
                        !.isProcessing = TRUE,
                        !.conversation = Append(@, LengthEntry("user", limitedInput(input))),
                        !.pc = "llm"]
    /\ UNCHANGED <<agentVars, llmVars, searchVars, fallbackVars, toolVars, mockVars,
                 keyVars, domVars, credVars>>

\* callLLM returns a response without tool calls: agentLoop displays it,
\* stores it and ends the turn
callLLMPlain(content) ==
    /\ turn.pc = "llm"
    /\ TurnRoom
    /\ turn' = [turn EXCEPT
          !.last = "other",
          !.shown = IF content > 0 THEN addMessage("agent", content) ELSE @,
          !.conversation = Append(@, LengthEntry("assistant", content)),
          !.isProcessing = FALSE,
          !.pc = "idle"]
    /\ UNCHANGED <<agentVars, llmVars, searchVars, fallbackVars, toolVars, mockVars,
                 keyVars, domVars, credVars>>

\* callLLM returns a response with tool calls: agentLoop displays its
\* content and starts handleToolCall
callLLMTools(content) ==
    /\ turn.pc = "llm"
    /\ turn' = [turn EXCEPT
          !.last = "other",
          !.shown = IF content > 0 THEN addMessage("agent", content) ELSE @,
          !.content = content,
          !.pc = "tools"]
    /\ UNCHANGED <<agentVars, llmVars, searchVars, fallbackVars, toolVars, mockVars,
                 keyVars, domVars, credVars>>

\* callLLM throws: the catch and finally blocks of agentLoop
callLLMThrows ==
    /\ turn.pc = "llm"
    /\ turn' = [turn EXCEPT !.last = "other",
                            !.isProcessing = FALSE, !.pc = "idle"]
    /\ UNCHANGED <<agentVars, llmVars, searchVars, fallbackVars, toolVars, mockVars,
                 keyVars, domVars, credVars>>

\* handleToolCall returns its entry, after displaying the result in a text
\* taken to be as long as the serialized one: agentLoop stores the
\* assistant entry and the tool entry and calls callLLM again
handleToolCallReturns(result) ==
    /\ turn.pc = "tools"
    /\ TurnRoom
    /\ turn' = [turn EXCEPT
          !.last = "other",
          !.shown = addMessage("tool", result),
          !.conversation = @ \o << LengthEntry("assistant", turn.content),
                                   LengthEntry("tool", result) >>,
          !.content = 0,
          !.pc = "llm"]
    /\ UNCHANGED <<agentVars, llmVars, searchVars, fallbackVars, toolVars, mockVars,
                 keyVars, domVars, credVars>>

\* JSON.parse(args) throws in handleToolCall: Promise.all rejects, the
\* catch and finally blocks of agentLoop
handleToolCallThrows ==
    /\ turn.pc = "tools"
    /\ turn' = [turn EXCEPT !.last = "other", !.content = 0,
                            !.isProcessing = FALSE, !.pc = "idle"]
    /\ UNCHANGED <<agentVars, llmVars, searchVars, fallbackVars, toolVars, mockVars,
                 keyVars, domVars, credVars>>

\* the cleanup interval: cleanConversationMemory
TurnSweep ==
    /\ Len(turn.conversation) > maxConversationLength
    /\ turn' = [turn EXCEPT !.conversation = cleanConversationMemory(@), !.last = "other"]
    /\ UNCHANGED <<agentVars, llmVars, searchVars, fallbackVars, toolVars, mockVars,
                 keyVars, domVars, credVars>>

\* clearChat, confirmed by the user: the page shows the welcome text again
TurnClearChat ==
    /\ turn.conversation # <<>>
    /\ turn' = [turn EXCEPT !.conversation = <<>>, !.last = "other",
                            !.shown = addMessage("agent", 100)]
    /\ UNCHANGED <<agentVars, llmVars, searchVars, fallbackVars, toolVars, mockVars,
                 keyVars, domVars, credVars>>

TurnNext ==
    \/ \E value \in InputValues : TypeInput(value)
    \/ handleUserInputTurn
    \/ \E content \in ContentLengths : callLLMPlain(content)
    \/ \E content \in ContentLengths : callLLMTools(content)
    \/ callLLMThrows
    \/ \E result \in ResultLengths : handleToolCallReturns(result)
    \/ handleToolCallThrows
    \/ TurnSweep
    \/ TurnClearChat

TurnSpec == Init /\ [][TurnNext]_vars

----------------------------------------------------------------------------
(* The cache key of a search: googleSearch of the page and POST /api/search
   make it the same way, from a query taken as a sequence of characters *)

Repeat(c, n) == [i \in 1..n |-> c]

\* the queries that pass `!query || typeof query !== 'string'`
KeyQueries ==
    { <<"i", "b", "m">>, <<"I", "B", "M">>, <<" ", "i", "b", "m", " ">>,
      <<"i", "b", " ", "m">>, <<" ">>, <<"a">>, <<"a", "_", "1">>,
      Repeat("a", MAX_QUERY_LENGTH),
      Repeat("a", MAX_QUERY_LENGTH) \o <<"x">>,
      Repeat("a", MAX_QUERY_LENGTH) \o <<"Y">>,
      <<" ">> \o Repeat("a", MAX_QUERY_LENGTH) \o <<"b">> }

\* num_results: a number, absent, or a text that parseInt makes NaN of
KeyCounts == Counts \cup {[kind |-> "text", value |-> 0]}

RECURSIVE trimStart(_)
trimStart(chars) ==
    IF chars # <<>> /\ Head(chars) = " " THEN trimStart(Tail(chars)) ELSE chars

RECURSIVE trimEnd(_)
trimEnd(chars) ==
    IF chars # <<>> /\ chars[Len(chars)] = " "
      THEN trimEnd(SubSeq(chars, 1, Len(chars) - 1))
      ELSE chars

\* query.trim().substring(0, 200)
trimSubstring(chars) ==
    LET t == trimEnd(trimStart(chars))
    IN  SubSeq(t, 1, Min(Len(t), MAX_QUERY_LENGTH))

\* String.prototype.toLowerCase on the letters the queries hold
toLowerCase(chars) ==
    [i \in 1..Len(chars) |->
        CASE chars[i] = "I" -> "i"
          [] chars[i] = "B" -> "b"
          [] chars[i] = "M" -> "m"
          [] chars[i] = "Y" -> "y"
          [] OTHER          -> chars[i]]

\* the decimal digits of a number from 1 to 10, as a template literal
\* writes them
decimal(n) ==
    IF n = 10 THEN <<"1", "0">>
    ELSE << <<"1", "2", "3", "4", "5", "6", "7", "8", "9">>[n] >>

\* a key made of the query as it is
cacheKey_CaseSensitive(query, numResults) == query \o <<"_">> \o decimal(numResults)

\* `${query.toLowerCase()}_${numResults}`
cacheKey(query, numResults) == toLowerCase(query) \o <<"_">> \o decimal(numResults)

\* a search as far as its key: the query and the count as normalised, and
\* the key
Keyed(q, count) ==
    LET query      == trimSubstring(q)
        numResults == clamp(count)
    IN  [q |-> q, count |-> count, query |-> query, numResults |-> numResults,
         cacheKey |-> cacheKey(query, numResults)]

keySearch(q, count) ==
    /\ keyed.stage = "idle"
    /\ keyed' = [keyed EXCEPT !.stage = "one", !.first = Keyed(q, count)]
    /\ UNCHANGED <<agentVars, llmVars, searchVars, fallbackVars, toolVars, mockVars,
                   turnVars, domVars, credVars>>

keySearchAgain(q, count) ==
    /\ keyed.stage = "one"
    /\ keyed' = [keyed EXCEPT !.stage = "two", !.second = Keyed(q, count)]
    /\ UNCHANGED <<agentVars, llmVars, searchVars, fallbackVars, toolVars, mockVars,
                   turnVars, domVars, credVars>>

KeysOver ==
    /\ keyed.stage = "two"
    /\ keyed' = [stage |-> "idle", first |-> <<>>, second |-> <<>>]
    /\ UNCHANGED <<agentVars, llmVars, searchVars, fallbackVars, toolVars, mockVars,
                   turnVars, domVars, credVars>>

KeyNext ==
    \/ \E q \in KeyQueries, count \in KeyCounts : keySearch(q, count)
    \/ \E q \in KeyQueries, count \in KeyCounts : keySearchAgain(q, count)
    \/ KeysOver

KeySpec == Init /\ [][KeyNext]_vars

----------------------------------------------------------------------------
(* The message elements of the page: addMessage and cleanDOMMessages. An
   element is the number of the addMessage call that made it; the page
   starts with the welcome message of the constructor *)

\* this.maxDOMMessages
maxDOMMessages == 100

\* the 10 of `messages.length - this.maxDOMMessages + 10`
DomSlack == 10

\* the 5 of `for (let i = 5; i < toRemove + 5; i++)`
DomPinned == 5

\* the addMessage calls considered
MaxCreated == 113

\* cleanDOMMessages that removes from the first element on
cleanDOMMessages_FromFirst(messages) ==
    IF Len(messages) > maxDOMMessages
      THEN SubSeq(messages, Len(messages) - maxDOMMessages + DomSlack + 1, Len(messages))
      ELSE messages

\* cleanDOMMessages: above the maximum, the elements messages[5] to
\* messages[toRemove + 4] are removed
cleanDOMMessages(messages) ==
    IF Len(messages) > maxDOMMessages
      THEN LET toRemove == Len(messages) - maxDOMMessages + DomSlack
           IN  SubSeq(messages, 1, Min(DomPinned, Len(messages))) \o
               SubSeq(messages, toRemove + DomPinned + 1, Len(messages))
      ELSE messages

\* addMessage: appendChild, then cleanDOMMessages
domAddMessage ==
    /\ dom.created < MaxCreated
    /\ dom' = [messages |-> cleanDOMMessages(Append(dom.messages, dom.created + 1)),
               created |-> dom.created + 1]
    /\ UNCHANGED <<agentVars, llmVars, searchVars, fallbackVars, toolVars, mockVars,
                   turnVars, keyVars, credVars>>

\* clearChat: conversationEl.innerHTML = '', then addMessage of the welcome text
domClearChat ==
    /\ dom.created < MaxCreated
    /\ dom' = [messages |-> cleanDOMMessages(<< dom.created + 1 >>),
               created |-> dom.created + 1]
    /\ UNCHANGED <<agentVars, llmVars, searchVars, fallbackVars, toolVars, mockVars,
                   turnVars, keyVars, credVars>>

\* the cleanup interval: cleanDOMMessages
domCleanupInterval ==
    /\ dom' = [dom EXCEPT !.messages = cleanDOMMessages(@)]
    /\ UNCHANGED <<agentVars, llmVars, searchVars, fallbackVars, toolVars, mockVars,
                   turnVars, keyVars, credVars>>

DomNext ==
    \/ domAddMessage
    \/ domClearChat
    \/ domCleanupInterval

DomSpec == Init /\ [][DomNext]_vars

----------------------------------------------------------------------------
(* POST /api/search and the credentials of its requests: the server's cache
   holds the source of the results it keeps for a key *)

\* googleSearchKey and searchEngineId of a request: none, one of the two or
\* a key of at most 20 characters, or both in full
CredentialValues == {"none", "incomplete", "complete"}

\* the sources performFallbackSearch answers with
ServerFallbackSources ==
    {"Enhanced Knowledge Base", "Contextual Search Results", "Wikipedia + Knowledge Base"}

NoCred ==
    [cache |-> <<>>, stage |-> "idle", key |-> "none", credentials |-> "none",
     source |-> "none", cached |-> FALSE]

\* the handler up to its answer from the cache or its first await
credSearch(key, credentials) ==
    /\ cred.stage = "idle"
    /\ LET cache == cleanCache(cred.cache)
       IN  cred' = IF Fresh(cache, key, CACHE_TTL)
                     THEN [cache |-> cache, stage |-> "answered", key |-> key,
                           credentials |-> credentials,
                           source |-> get(cache, key).data, cached |-> TRUE]
                     ELSE [cache |-> cache, stage |-> "backend", key |-> key,
                           credentials |-> credentials, source |-> "none",
                           cached |-> FALSE]
    /\ UNCHANGED <<agentVars, llmVars, searchVars, fallbackVars, toolVars, mockVars,
                   turnVars, keyVars, domVars>>

\* performGoogleSearch returns: the results are cached and sent
credGoogleAnswers ==
    /\ cred.stage = "backend"
    /\ cred.credentials = "complete"
    /\ cred' = [cred EXCEPT
          !.stage = "answered",
          !.cache = set(@, cred.key, "Google Custom Search API"),
          !.source = "Google Custom Search API"]
    /\ UNCHANGED <<agentVars, llmVars, searchVars, fallbackVars, toolVars, mockVars,
                   turnVars, keyVars, domVars>>

\* no full credentials, or performGoogleSearch throws: the results of
\* performFallbackSearch are cached and sent
credFallbackAnswers(source) ==
    /\ cred.stage = "backend"
    /\ cred' = [cred EXCEPT
          !.stage = "answered",
          !.cache = set(@, cred.key, source),
          !.source = source]
    /\ UNCHANGED <<agentVars, llmVars, searchVars, fallbackVars, toolVars, mockVars,
                   turnVars, keyVars, domVars>>

\* performFallbackSearch throws: the catch of the handler sends the
\* emergency results and caches nothing
credEmergencyAnswers ==
    /\ cred.stage = "backend"
    /\ cred' = [cred EXCEPT !.stage = "answered", !.source = "Emergency Fallback"]
    /\ UNCHANGED <<agentVars, llmVars, searchVars, fallbackVars, toolVars, mockVars,
                   turnVars, keyVars, domVars>>

\* the answer is received
credOver ==
    /\ cred.stage = "answered"
    /\ cred' = [NoCred EXCEPT !.cache = cred.cache]
    /\ UNCHANGED <<agentVars, llmVars, searchVars, fallbackVars, toolVars, mockVars,
                   turnVars, keyVars, domVars>>

\* one tick of time passes
credTick ==
    /\ cred.cache # Older(cred.cache, CACHE_TTL)
    /\ cred' = [cred EXCEPT !.cache = Older(@, CACHE_TTL)]
    /\ UNCHANGED <<agentVars, llmVars, searchVars, fallbackVars, toolVars, mockVars,
                   turnVars, keyVars, domVars>>

CredNext ==
    \/ \E key \in Keys, credentials \in CredentialValues : credSearch(key, credentials)
    \/ credGoogleAnswers
    \/ \E source \in ServerFallbackSources : credFallbackAnswers(source)
    \/ credEmergencyAnswers
    \/ credOver
    \/ credTick

CredSpec == Init /\ [][CredNext]_vars

----------------------------------------------------------------------------
(* Properties *)

\* the step appends one user entry to the conversation
UserEntryAppended ==
    /\ Len(conversation') = Len(conversation) + 1
    /\ conversation'[Len(conversation')].role = "user"

\* C1: while isProcessing holds, no step appends a user entry to the
\* conversation or starts another agentLoop, and never more than one
\* agentLoop is active
C1_SingleTurnInFlight ==
    [][ /\ agentLoops' <= 1
        /\ isProcessing => (~UserEntryAppended /\ agentLoops' <= agentLoops) ]_vars

\* a handleUserInput call arrived in the middle of a turn and was ignored
C1_Witness == isProcessing /\ pc # "idle" /\ lastInput = "ignored"

\* C2: in demo mode (blank key) every turn comes to an end
C2_DemoTurnTerminates == (apiKey = "blank" /\ isProcessing) ~> ~isProcessing

\* the step in which agentLoop takes a rejection: a tool handler threw, or
\* callLLM threw (the loop ends and nothing was pushed)
ThrowTaken ==
    \/ pc = "tools" /\ AnyRejected
    \/ pc = "live" /\ pc' = "idle" /\ conversation' = conversation

\* C3: when the provider call or a tool handler throws, the turn ends, an
\* error alert is shown and isProcessing is false again; the loop is never
\* gone while isProcessing still holds
C3_ThrowEndsTurn ==
    [][ /\ ThrowTaken =>
             /\ pc' = "idle"
             /\ ~isProcessing'
             /\ agentLoops' = 0
             /\ "Agent Error" \in alerts'
        /\ pc' = "idle" => ~isProcessing' ]_vars

\* a tool handler threw while another call of the batch was running, and the
\* system is back waiting for input with the alert shown
C3_Witness ==
    /\ pc = "idle"
    /\ ~isProcessing
    /\ "Agent Error" \in alerts
    /\ orphans > 0

\* the step in which agentLoop is done with the batch it dispatched
BatchOver == pc = "tools" /\ pc' # "tools"

\* the entries the step added at the end of the conversation
Appended ==
    IF Len(conversation') > Len(conversation)
         /\ SubSeq(conversation', 1, Len(conversation)) = conversation
      THEN SubSeq(conversation', Len(conversation) + 1, Len(conversation'))
      ELSE << >>

ToolEntriesOf(entries) == SelectSeq(entries, LAMBDA e : e.role = "tool")

\* C4: for every response with a batch of k tool calls, the tool entries
\* appended for the batch are exactly k, one for each request id
C4_OneResultPerCall ==
    [][ BatchOver =>
          LET calls   == response.tool_calls
              results == ToolEntriesOf(Appended)
          IN  /\ Len(results) = Len(calls)
              /\ \A c \in 1..Len(calls) :
                    Cardinality({ i \in 1..Len(results) :
                                    results[i].tool_call_id = calls[c].id }) = 1 ]_vars

\* C5: every call handed to handleToolCall yields a tool-role result with
\* the id of the request, and handleToolCall never throws
C5_ToolCallNeverThrows ==
    \A i \in 1..Len(tasks) :
       /\ tasks[i].state # "rejected"
       /\ tasks[i].state = "fulfilled" =>
             /\ tasks[i].value[1].role = "tool"
             /\ tasks[i].value[1].tool_call_id = response.tool_calls[i].id

\* C6: what is appended for a batch is the assistant entry followed by the
\* results in the order of the calls, whatever the order they finished in
C6_ResultsInCallOrder ==
    [][ (BatchOver /\ pc' # "idle") =>
          LET calls == response.tool_calls
          IN  /\ Len(Appended) = Len(calls) + 1
              /\ Appended[1] = AssistantEntry(response)
              /\ \A i \in 1..Len(calls) :
                    /\ Appended[i + 1].role = "tool"
                    /\ Appended[i + 1].tool_call_id = calls[i].id ]_vars

\* the second call of a batch finished first, and the batch was appended
\* with the result of the first call first
C6_Witness ==
    /\ pc = "live"
    /\ finished = <<2, 1>>
    /\ Len(conversation) >= 3
    /\ conversation[Len(conversation) - 2] = AssistantEntry(response)
    /\ conversation[Len(conversation) - 1].tool_call_id = response.tool_calls[1].id
    /\ conversation[Len(conversation)].tool_call_id = response.tool_calls[2].id

\* the assistant entry of the batch in hand is in the conversation
RequestAppended(conv, resp) ==
    \E i \in 1..Len(conv) : conv[i] = AssistantEntry(resp)

\* C7 as stated: when the tool calls of a batch start, the assistant entry
\* that requested them is already in the conversation
C7_AssistantBeforeTools ==
    [][ (pc # "tools" /\ pc' = "tools") => RequestAppended(conversation', response') ]_vars

\* C7 amended: starting the tool calls appends nothing; an assistant entry
\* that carries tool calls is appended only when every call of its batch has
\* completed
C7_AssistantAfterTools ==
    [][ /\ (pc # "tools" /\ pc' = "tools") => conversation' = conversation
        /\ (\E i \in 1..Len(Appended) :
               Appended[i].role = "assistant" /\ Appended[i].tool_calls # <<>>)
             => (pc = "tools" /\ AllDone) ]_vars

\* a tool call has returned and the assistant entry that requested it is
\* not in the conversation
C7_Witness ==
    /\ pc = "tools"
    /\ finished # <<>>
    /\ ~RequestAppended(conversation, response)

\* C8: the turn does not go on, no tool result is appended and no provider
\* call is made while a tool call of a dispatched batch has not completed
C8_JoinBarrier ==
    [][ /\ BatchOver => \A i \in 1..Len(tasks) : tasks[i].state # "pending"
        /\ ToolEntriesOf(Appended) # <<>> => (pc = "tools" /\ AllDone)
        /\ (pc' \in {"mock", "live"} /\ pc \notin {"mock", "live"}) =>
              /\ orphans = 0
              /\ pc = "tools" => AllDone ]_vars

\* C9: at the end of a turn the conversation holds at most
\* maxConversationLength entries
C9_ConversationCapped == pc = "idle" => Len(conversation) <= maxConversationLength

\* the assistant entry nearest before position i, 0 if there is none
PrecedingAssistant(conv, i) ==
    LET before == { j \in 1..(i - 1) : conv[j].role = "assistant" }
    IN  IF before = {} THEN 0 ELSE CHOOSE j \in before : \A l \in before : l <= j

\* C10: every tool entry answers a tool call of the nearest assistant entry
\* before it
C10_ToolEntryHasRequest ==
    \A i \in 1..Len(conversation) :
       conversation[i].role = "tool" =>
          LET j == PrecedingAssistant(conversation, i)
          IN  /\ j > 0
              /\ \E c \in 1..Len(conversation[j].tool_calls) :
                    conversation[j].tool_calls[c].id = conversation[i].tool_call_id

\* a live call of the page failed: the vendor call threw, or /api/llm was not
\* reached or did not answer 200
LiveCallFailed ==
    /\ caller.origin = "client"
    /\ caller.key # ""
    /\ (live = "failed" \/ res.status # "200")

\* C11: when a live provider call fails, the mock responder's output stands
\* in: agentLoop gets a response, shows its content and dispatches its tool
\* calls, and the turn is not aborted
C11_LiveFailureFallsBackToMock ==
    (llmPc = "done" /\ LiveCallFailed) =>
        /\ outcome.state = "returned"
        /\ outcome.content # Undefined
        /\ res.mock => outcome.tool_calls = res.tool_calls

\* C12: a request with the empty string as credential and every parameter
\* present is answered 200 with a content or with tool calls
C12_EmptyKeyAnswers200 ==
    (llmPc \in {"answered", "done"} /\ caller.origin = "direct"
        /\ req.apiKey = "" /\ ~MissingParameters(req)) =>
        /\ res.status = "200"
        /\ (res.content # Undefined \/ res.tool_calls # <<>>)

\* C13: /api/llm answers 400 when a parameter is missing and never answers
\* with a 5xx, nor leaves a request unanswered
C13_Never5xx ==
    (llmPc \in {"answered", "done"} /\ caller.origin = "direct") =>
        /\ MissingParameters(req) => res.status = "400"
        /\ res.status \in {"200", "400"}

\* a credential that is absent, empty, blank or a sentinel string
BlankCredential(k) == k \in {"<missing>", "", "  ", "undefined", "null"}

LiveEntries(cache, ttl) == {i \in 1..Len(cache) : cache[i].age < ttl}

\* C15: in every reachable state the search cache of the page holds at most
\* maxCacheEntries live entries and the search cache of the server at most
\* MAX_CACHE_SIZE, also right after an insert
C15_CacheBounded ==
    /\ Cardinality(LiveEntries(searchCache, cacheTTL)) <= maxCacheEntries
    /\ Cardinality(LiveEntries(serverCache, CACHE_TTL)) <= MAX_CACHE_SIZE

\* googleSearch returns in this step what it read from the cache of the page
PageCacheHit ==
    /\ returned' # returned
    /\ returned'.since = 0
    /\ returned'.result.source = "page cache"

\* activation s gets past the rate limiter in this step
PassesLimiter(s) ==
    \/ searches[s].stage = "cooldown" /\ searches'[s].stage # "cooldown"
    \/ searches[s].stage = "idle" /\ searches'[s].stage = "fetching"

\* C16: a search never returns from a cache an entry whose age has reached the
\* time to live of that cache: what the page answers from its cache is an
\* entry younger than cacheTTL, what the server answers from its cache is an
\* entry younger than CACHE_TTL, and a search that finds an older entry for
\* its key goes on to a fresh lookup
C16_NoStaleHit ==
    [][ /\ PageCacheHit =>
             /\ Has(searchCache, returned'.key)
             /\ get(searchCache, returned'.key).age < cacheTTL
        /\ \A s \in Slots :
             /\ (/\ searches[s].stage = "cooldown"
                 /\ PassesLimiter(s)
                 /\ Has(searchCache, searches[s].key)
                 /\ get(searchCache, searches[s].key).age >= cacheTTL)
                  => searches'[s].stage = "fetching"
             /\ (searches[s].stage = "fetching" /\ searches'[s].stage = "answered") =>
                   /\ searches'[s].result.cached
                   /\ Has(serverCache, searches[s].key)
                   /\ get(serverCache, searches[s].key).age < CACHE_TTL
             /\ (/\ searches[s].stage = "fetching"
                 /\ searches'[s].stage \in {"answered", "backend"}
                 /\ Has(serverCache, searches[s].key)
                 /\ get(serverCache, searches[s].key).age >= CACHE_TTL)
                  => searches'[s].stage = "backend"
      ]_vars

\* the page holds an entry for the key of a search whose age has reached
\* cacheTTL, and the search has sent its request to the server
C16_Witness ==
    \E s \in Slots :
        /\ searches[s].stage = "fetching"
        /\ Has(searchCache, searches[s].key)
        /\ get(searchCache, searches[s].key).age >= cacheTTL

\* activation s, called after the last search of the same query and count
\* returned, returns in this step
SecondReturns(s) ==
    /\ searches[s].stage # "idle"
    /\ searches[s].prior
    /\ searches'[s].stage = "idle"

\* C17: a search called after a search of the same query and count returned,
\* and returning less than cacheTTL after it, returns cached: true and the
\* results of the first
C17_SecondCallCached ==
    [][ \A s \in Slots :
          (SecondReturns(s) /\ returned.since < cacheTTL) =>
             /\ returned'.key = returned.key
             /\ returned'.result.cached
             /\ returned'.result.data = returned.result.data
      ]_vars

\* C18: an activation gets past the rate limiter only when searchCooldown has
\* gone by since the last activation got past it
C18_SearchesCooldownApart ==
    [][ \A s \in Slots : PassesLimiter(s) => sinceSearch >= searchCooldown ]_vars

\* C19: a google_search with a non-empty string query that finds the backend
\* failing or without credentials returns, and does not throw; its results
\* are not empty, they are no more than the requested count, and their source
\* is a fallback label
C19_FallbackWithinCount ==
    (lookup.stage # "idle" /\ lookup.failure # "none") =>
        /\ lookup.stage = "returned"
        /\ Len(lookup.results) >= 1
        /\ lookup.count.kind = "number" => Len(lookup.results) <= lookup.count.value
        /\ lookup.source \in FallbackLabels

\* C20: every result a google_search returns for a query of at most 200
\* characters, whatever its source, has a title of at most 150 characters and
\* a snippet of at most 300
C20_ResultsCapped ==
    (lookup.stage = "returned" /\ lookup.query.length <= MAX_QUERY_LENGTH) =>
        \A i \in 1..Len(lookup.results) :
            /\ lookup.results[i].title <= TitleLimit
            /\ lookup.results[i].snippet <= SnippetLimit

\* C21: aiPipe never signals failure: whatever the workflow and the data, and
\* whether or not the request to the backend succeeds, it returns a result
\* tagged status 'completed' and does not throw
C21_AiPipeNeverFails ==
    (tool.name = "ai_pipe" /\ tool.stage = "over") =>
        /\ tool.outcome.state = "returned"
        /\ tool.outcome.completed

\* the code did not run to a value the server could send, or the page did
\* not get the server's answer
ExecutionFault ==
    \/ tool.code # "1 + 1"
    \/ tool.res.status # "200"

\* C22: executeJavaScript never throws to its caller: an execution fault, a
\* timeout of the sandbox, an error response of the backend and a network
\* failure are returned as a value with success false and an error message
C22_ExecuteNeverThrows ==
    (tool.name = "execute_javascript" /\ tool.caller = "page" /\ tool.stage = "over") =>
        /\ tool.outcome.state = "returned"
        /\ ExecutionFault => (~tool.outcome.success /\ tool.outcome.error)

\* the backend answered the page with an error status, or not at all, and
\* executeJavaScript returned its structured failure
C22_Witness ==
    /\ tool.name = "execute_javascript"
    /\ tool.caller = "page"
    /\ tool.stage = "over"
    /\ tool.res.status \in {"400", "500", "hung"}
    /\ tool.outcome.state = "returned"
    /\ tool.outcome.error

\* C23: whatever the request body, /api/execute answers, and with a 2xx
\* status
C23_ExecuteAlways2xx ==
    (tool.name = "execute_javascript" /\ tool.res.status # "none") =>
        tool.res.status = "200"

\* C24: /api/search answers a missing or non-string query with 400 and every
\* other request with 200 and a results list that is not empty
C24_SearchAnswers ==
    (tool.name = "search" /\ tool.res.status # "none") =>
        IF tool.kind \in {"missing", "nonstring", "empty"}
          THEN tool.res.status = "400"
          ELSE tool.res.status = "200" /\ tool.res.results >= 1

\* the index of the latest user entry of conv, 0 when it has none
LatestUser(conv) ==
    LET users == { i \in 1..Len(conv) : conv[i].role = "user" }
    IN  IF users = {} THEN 0 ELSE CHOOSE i \in users : \A j \in users : j <= i

\* conv as the responder would see it if the latest user message were its
\* last entry; the text of the whole conversation is the same
WithLatestUser(conv) ==
    IF LatestUser(conv) \in {0, Len(conv)} THEN conv ELSE conv \o << conv[LatestUser(conv)] >>

\* a content that is the empty string or no string at all
EmptyContent(content) == content \in {EmptyInput, Undefined}

\* what the responder invoked has returned so far
MockReturned ==
    CASE mock.stage = "once"  -> {mock.first}
      [] mock.stage = "twice" -> {mock.first, mock.second}
      [] OTHER                -> {}

\* C26: a response of a mock responder has non-empty content or exactly
\* one tool call, never empty content with no tool call, and every tool
\* call it holds names google_search, ai_pipe or execute_javascript
C26_MockNeverEmpty ==
    \A r \in MockReturned :
        /\ ~EmptyContent(r.content) \/ Len(r.tool_calls) = 1
        /\ \A i \in 1..Len(r.tool_calls) : r.tool_calls[i].name \in ToolNames

\* C26 witness: the page's responder, invoked twice mid-turn after a tool
\* result, has answered with text and no tool call both times
C26_Witness ==
    /\ mock.stage = "twice"
    /\ mock.side = "page"
    /\ Len(mock.conv) = 3
    /\ mock.conv[3].role = "tool"
    /\ mock.first.tool_calls = <<>>
    /\ Len(mock.second.tool_calls) = 0

\* C27: two invocations of a mock responder on the same conversation
\* return the same content and the same tool calls (names and arguments)
C27_MockDeterministic ==
    mock.stage = "twice" =>
        /\ mock.first.content = mock.second.content
        /\ Len(mock.first.tool_calls) = Len(mock.second.tool_calls)
        /\ \A i \in 1..Len(mock.first.tool_calls) :
              /\ mock.first.tool_calls[i].name = mock.second.tool_calls[i].name
              /\ mock.first.tool_calls[i].args = mock.second.tool_calls[i].args

\* C28: what a mock responder returns is what its patterns give on the
\* latest user message of the conversation, also when tool results follow
\* that message
C28_MockMatchesLatestUser ==
    (mock.stage # "idle" /\ LatestUser(mock.conv) # 0) =>
        mock.first \in MockResponses(mock.side, WithLatestUser(mock.conv))

\* C25: every entry stored in the conversation has a content of at most
\* maxMessageLength characters plus the truncation marker
C25_StoredContentCapped ==
    \A i \in 1..Len(turn.conversation) :
        turn.conversation[i].length <= maxMessageLength + TruncationMarker

\* C30: a turn starts only in handleUserInput and only from an input that
\* is not empty once trimmed; the step appends the user entry, which holds
\* at most 2000 characters of the input, and leaves the provider call of
\* the turn still to be made; handleUserInput on an empty or blank input
\* changes neither the conversation nor the processing state
C30_TurnStartsFromInput ==
    [][LET input == trimmed(turn.box)
           started == ~turn.isProcessing /\ turn'.isProcessing
       IN  /\ started =>
                 /\ turn'.last = "handleUserInput"
                 /\ input > 0
                 /\ Len(turn'.conversation) = Len(turn.conversation) + 1
                 /\ SubSeq(turn'.conversation, 1, Len(turn.conversation)) = turn.conversation
                 /\ turn'.conversation[Len(turn'.conversation)].role = "user"
                 /\ turn'.conversation[Len(turn'.conversation)].length <= MaxInputLength
                 /\ turn'.conversation[Len(turn'.conversation)].length <= input
                 /\ turn'.pc = "llm"
           /\ (turn'.last = "handleUserInput" /\ input = 0) =>
                 /\ turn'.conversation = turn.conversation
                 /\ turn'.isProcessing = turn.isProcessing
           /\ turn.pc # "llm" /\ turn'.pc = "llm" /\ ~turn.isProcessing => started
      ]_vars

\* C30 witness: handleUserInput has just accepted an input of more than
\* 2000 characters typed between blanks, and stored 2000 of them
C30_Witness ==
    /\ turn.last = "handleUserInput"
    /\ turn.isProcessing
    /\ turn.pc = "llm"
    /\ turn.conversation # <<>>
    /\ turn.conversation[Len(turn.conversation)] = LengthEntry("user", MaxInputLength)

\* C29: when a provider response without tool calls arrives, exactly one
\* assistant entry is appended and the turn ends, and the provider is not
\* called again before a user entry is appended; when the tool calls of a
\* response are over, the provider is called again in the same turn
C29_ResponseEndsOrContinues ==
    [][/\ ((MockRespond \/ LiveRespond) /\ pc' # "tools") =>
             /\ Len(conversation') = Len(conversation) + 1
             /\ SubSeq(conversation', 1, Len(conversation)) = conversation
             /\ conversation'[Len(conversation')].role = "assistant"
             /\ pc' = "idle"
             /\ ~isProcessing'
       /\ (pc = "idle" /\ pc' \in {"mock", "live"}) => UserEntryAppended
       /\ (pc = "tools" /\ pc' # "tools") =>
             /\ pc' \in {"mock", "live"}
             /\ ~UserEntryAppended
      ]_vars

TurnEntries == LatestUser(conversation)..Len(conversation)

\* the entries a step takes out of the conversation from behind its first one
Evicted == 2..(1 + Len(conversation) - Len(conversation'))

\* C32: a sweep that runs while a turn is in flight removes none of the
\* entries of that turn
C32_SweepSparesTurn ==
    [][(Sweep /\ pc # "idle") => TurnEntries \cap Evicted = {}]_vars

\* some entry of cache is missing from after
Shrinks(cache, after) == \E i \in 1..Len(cache) : ~Has(after, cache[i].key)

\* after is what a sweep may leave of cache: entries of cache only, none
\* older than ttl, at most max of them, and every entry that was not older
\* than ttl and is gone is at least as old as every entry left
Swept(cache, after, ttl, max) ==
    /\ \A j \in 1..Len(after) : \E i \in 1..Len(cache) : after[j] = cache[i]
    /\ \A j \in 1..Len(after) : after[j].age <= ttl
    /\ Len(after) <= max
    /\ \A i \in 1..Len(cache) :
          (cache[i].age <= ttl /\ ~Has(after, cache[i].key)) =>
              \A j \in 1..Len(after) : cache[i].age >= after[j].age

\* C33: after a sweep of the page's or of the server's cache no entry older
\* than the time to live remains, the cache holds at most its maximum of
\* entries, and the entries removed for the maximum are the oldest
C33_CacheSweep ==
    [][/\ (cleanupInterval \/ Shrinks(searchCache, searchCache')) =>
             Swept(searchCache, searchCache', cacheTTL, maxCacheEntries)
       /\ (serverCleanupInterval \/ Shrinks(serverCache, serverCache')) =>
             Swept(serverCache, serverCache', CACHE_TTL, MAX_CACHE_SIZE)
      ]_vars

\* C33 witness: a search has just returned a result of the server, which
\* was cached at once, and a sweep has removed that entry for the maximum
\* and kept the entry of another key
C33_Witness ==
    /\ returned.key \in Keys
    /\ returned.since = 0
    /\ ~returned.result.cached
    /\ returned.result.source = "server"
    /\ ~Has(searchCache, returned.key)
    /\ Len(searchCache) = maxCacheEntries

\* C34: two searches have the same cache key exactly when their queries
\* are equal once trimmed, cut to 200 characters and put in lower case and
\* their counts are equal once normalised, and a normalised count lies
\* between 1 and 10
C34_SharedCacheKey ==
    /\ keyed.stage # "idle" => keyed.first.numResults \in 1..MAX_RESULTS
    /\ keyed.stage = "two" =>
          /\ keyed.second.numResults \in 1..MAX_RESULTS
          /\ (keyed.first.cacheKey = keyed.second.cacheKey) <=>
                /\ toLowerCase(trimSubstring(keyed.first.q)) =
                       toLowerCase(trimSubstring(keyed.second.q))
                /\ keyed.first.numResults = keyed.second.numResults

\* C34 witness: a query in capitals with the count 0, and the same word in
\* small letters between blanks without a count, have one key
C34_Witness ==
    /\ keyed.stage = "two"
    /\ keyed.first.q = <<"I", "B", "M">>
    /\ keyed.first.count = [kind |-> "number", value |-> 0]
    /\ keyed.second.q = <<" ", "i", "b", "m", " ">>
    /\ keyed.second.count = [kind |-> "absent", value |-> 0]
    /\ keyed.first.cacheKey = keyed.second.cacheKey

\* the elements of before that are missing from after
Removed(before, after) ==
    { before[i] : i \in 1..Len(before) } \ { after[j] : j \in 1..Len(after) }

\* C35: after every addMessage at most maxDOMMessages elements are
\* rendered; when addMessage removes elements, the first 5 elements are
\* kept and every element removed is older than every other element kept
C35_RenderedMessagesCapped ==
    [][/\ dom'.created = dom.created + 1 =>
             /\ Len(dom'.messages) <= maxDOMMessages
             /\ dom'.messages[Len(dom'.messages)] = dom'.created
       /\ domAddMessage =>
             LET removed == Removed(dom.messages, dom'.messages)
             IN  removed # {} =>
                    /\ SubSeq(dom'.messages, 1, DomPinned) =
                           SubSeq(dom.messages, 1, DomPinned)
                    /\ \A r \in removed :
                          \A j \in (DomPinned + 1)..Len(dom'.messages) :
                              r < dom'.messages[j]
      ]_vars

\* C35 witness: the 101st element since the page was cleared has just been
\* added, and the sixth and the ten elements after it were removed
C35_Witness ==
    /\ Len(dom.messages) = maxDOMMessages - DomSlack
    /\ dom.messages[Len(dom.messages)] = dom.created
    /\ dom.messages[DomPinned + 1] - dom.messages[DomPinned] = DomSlack + 2

\* C36: the conversation is empty at the start and after a clear only; the
\* first entry it receives then is the user entry of a new turn, never an
\* entry of a turn that was in flight when it was cleared
C36_ClearDiscardsTurn ==
    [][(conversation = <<>> /\ conversation' # <<>>) =>
          conversation'[1].role = "user"]_vars

\* every tool entry of messages comes after an assistant entry of messages
\* that holds a tool call of its id
Answered(messages) ==
    \A i \in 1..Len(messages) :
        messages[i].role = "tool" =>
            \E j \in 1..(i - 1) :
                /\ messages[j].role = "assistant"
                /\ \E k \in 1..Len(messages[j].tool_calls) :
                      messages[j].tool_calls[k].id = messages[i].tool_call_id

\* C37: in the messages callLLM sends to the provider, every tool entry is
\* preceded by the assistant entry that holds its tool call
C37_ToolEntriesAnswerACall ==
    [][(pc # "live" /\ pc' = "live") => Answered(requestMessages(conversation'))]_vars

\* C38: a provider response with tool calls appends nothing before its
\* batch is settled, and a batch with a call whose handler throws appends
\* nothing at all: neither the assistant entry nor a tool result
C38_BatchAllOrNothing ==
    [][/\ ((MockRespond \/ LiveRespond) /\ pc' = "tools") =>
             conversation' = conversation
       /\ Reject =>
             /\ conversation' = conversation
             /\ pc' = "idle"
      ]_vars

\* C38 witness: a batch was abandoned because one of its calls threw while
\* another call was still running; the conversation ends with the user entry
C38_Witness ==
    /\ pc = "idle"
    /\ orphans > 0
    /\ "Agent Error" \in alerts
    /\ conversation # <<>>
    /\ conversation[Len(conversation)].role = "user"

\* C39: the answer of /api/search to a request without Google credentials
\* never has the source 'Google Custom Search API'
C39_NoGoogleWithoutCredentials ==
    (cred.stage = "answered" /\ cred.credentials = "none") =>
        cred.source # "Google Custom Search API"

\* C40: a sweep keeps the entry appended last, and what the agent loop
\* appends goes behind the entries the conversation holds at that moment,
\* those a sweep has left included
C40_AppendsSurviveSweep ==
    [][/\ Sweep =>
             conversation'[Len(conversation')] = conversation[Len(conversation)]
       /\ (MockRespond \/ LiveRespond \/ Join) =>
             /\ Len(conversation') >= Len(conversation)
             /\ SubSeq(conversation', 1, Len(conversation)) = conversation
      ]_vars

\* C40 witness: a sweep has run during a turn, between the tool result and
\* the next answer of the provider, which was appended behind what it left
C40_Witness ==
    /\ Len(conversation) = maxConversationLength + 1
    /\ conversation[1].role = "user"
    /\ conversation[Len(conversation) - 1].role = "tool"
    /\ conversation[Len(conversation)].role = "assistant"
    /\ \A i \in 1..(Len(conversation) - 1) : conversation[i].role # "assistant"

====
